---- MODULE Spec2Model ----
(***************************************************************************)
(* Prompt Vault (src/script.js): the record collection, the favorites      *)
(* list, the undo/redo stacks and the category list kept in the DOM.       *)
(* Strings that the code trims, lower-cases, slices or prefix-tests        *)
(* (category keys and display names) are sequences of one-character        *)
(* strings; strings that are only stored and compared are TLA+ strings.    *)
(***************************************************************************)
EXTENDS Integers, Sequences, FiniteSets, TLC

VARIABLES prompts, favorites, undoStack, redoStack, editingPromptId,
          pendingConfirmAction, modals, currentCategory,
          catItems, catOptions, clock, lastOp, steps,
          searchCache, searchTimeoutId, timers, imageCache, boxes, promptRating,
          selectedPrompts, exportedFile,
          str1, str2, editDistance, similarity, duplicates,
          state, activeCategory, pagination, promptsContainer, viewSuggestions,
          argPrompt, argText, wordCount, complexity, suggestions

\* the debounced search: its cache, the id of the last timer set, the
\* timers of the page that have not fired, the suggestion list
searchVars == <<searchCache, searchTimeoutId, timers, suggestions>>

\* the image boxes of the prompt form, the uploads kept for them, and the
\* value of the form's rating field
formVars == <<imageCache, boxes, promptRating>>

\* the ids of the cards whose checkbox is ticked, and the last document the
\* page gave for download
vaultVars == <<selectedPrompts, exportedFile>>

\* the arguments of the last call of the duplicate detection's functions
\* and what the calls returned
simVars == <<str1, str2, editDistance, similarity, duplicates>>

\* the list view of the version the README lists: its state object, the
\* active category item, the pagination bar, the ids of the cards in the
\* container and the suggestion list
viewVars == <<state, activeCategory, pagination, promptsContainer, viewSuggestions>>

\* the arguments of the last call of a statistics function and what the
\* calls returned
statVars == <<argPrompt, argText, wordCount, complexity>>

vars == <<prompts, favorites, undoStack, redoStack, editingPromptId,
          pendingConfirmAction, modals, currentCategory,
          catItems, catOptions, clock, lastOp, steps,
          searchCache, searchTimeoutId, timers, imageCache, boxes, promptRating,
          selectedPrompts, exportedFile,
          str1, str2, editDistance, similarity, duplicates,
          state, activeCategory, pagination, promptsContainer, viewSuggestions,
          argPrompt, argText, wordCount, complexity, suggestions>>

(***************************************************************************)
(* Bounds of the model                                                     *)
(***************************************************************************)
MaxSteps == 7
MaxCatSteps == 6
MaxClock == 1
MaxCats == 5
MaxHistPrompts == 24
MaxSearchSteps == 7
MaxEditSteps == 7
MaxVaultSteps == 6
MaxShareSteps == 6
\* the longest string given to the duplicate detection's functions
MaxStrLen == 3
MaxDupSteps == 5
\* the records of the stored collection the list view opens on
MaxStored == 13
MaxViewSteps == 3
\* the largest stored collection the pages are turned on, and the largest
\* page size the slices are taken with
MaxPageStored == 13
MaxPageSize == 3
MaxSuggestSteps == 5
\* the milliseconds that pass in one step of a pending timer
TickMs == 150

(***************************************************************************)
(* Program constants                                                       *)
(***************************************************************************)
UndoLimit == 20
\* the delay of the search timer, in milliseconds
SearchDelay == 300

Null == "null"
Undefined == -1
\* undefined where a string can stand: what Map.get answers for a key the
\* map does not hold, what a member an object lacks reads as
UndefinedValue == "undefined"

(***************************************************************************)
(* String primitives of JavaScript used on category keys                   *)
(***************************************************************************)
UpperToLower ==
  [A |-> "a", B |-> "b", C |-> "c", D |-> "d", E |-> "e", F |-> "f",
   G |-> "g", H |-> "h", I |-> "i", J |-> "j", K |-> "k", L |-> "l",
   M |-> "m", N |-> "n", O |-> "o", P |-> "p", Q |-> "q", R |-> "r",
   S |-> "s", T |-> "t", U |-> "u", V |-> "v", W |-> "w", X |-> "x",
   Y |-> "y", Z |-> "z"]

toLowerCase(s) ==
  [i \in 1..Len(s) |-> IF s[i] \in DOMAIN UpperToLower THEN UpperToLower[s[i]] ELSE s[i]]

RECURSIVE trimStart(_)
trimStart(s) ==
  IF s # <<>> /\ Head(s) = " " THEN trimStart(Tail(s)) ELSE s

RECURSIVE trimEnd(_)
trimEnd(s) ==
  IF s # <<>> /\ s[Len(s)] = " " THEN trimEnd(SubSeq(s, 1, Len(s) - 1)) ELSE s

trim(s) == trimEnd(trimStart(s))

\* s.startsWith(p)
startsWith(s, p) ==
  /\ Len(p) <= Len(s)
  /\ SubSeq(s, 1, Len(p)) = p

\* s.slice(n): the characters of s from 0-based index n on
slice(s, n) == IF n >= Len(s) THEN <<>> ELSE SubSeq(s, n + 1, Len(s))

Slash == <<"/">>

(***************************************************************************)
(* The same primitives on the strings of the form and of the search box    *)
(***************************************************************************)
\* s.toLowerCase()
RECURSIVE strToLowerCase(_)
strToLowerCase(s) ==
  IF Len(s) = 0 THEN ""
  ELSE IF Len(s) = 1 THEN (IF s \in DOMAIN UpperToLower THEN UpperToLower[s] ELSE s)
  ELSE strToLowerCase(SubSeq(s, 1, Len(s) \div 2))
         \o strToLowerCase(SubSeq(s, Len(s) \div 2 + 1, Len(s)))

\* s.trim()
strTrim(s) ==
  LET kept == {i \in 1..Len(s) : SubSeq(s, i, i) # " "}
  IN IF kept = {} THEN ""
     ELSE SubSeq(s, CHOOSE i \in kept : \A j \in kept : i <= j,
                    CHOOSE i \in kept : \A j \in kept : i >= j)

\* s.includes(t)
includes(s, t) ==
  \E i \in 0..(Len(s) - Len(t)) : SubSeq(s, i + 1, i + Len(t)) = t

(***************************************************************************)
(* Category keys of the page and of the sample data                        *)
(***************************************************************************)
KeyFavorites == <<"f","a","v","o","r","i","t","e","s">>
KeyOther == <<"o","t","h","e","r">>
KeyArt == <<"a","r","t">>
KeyCode == <<"c","o","d","e">>

\* const protect = ['favorites','other'];
protect == {KeyFavorites, KeyOther}

KeyAll == <<"a","l","l">>

(***************************************************************************)
(* Inputs of the model: what the user types, picks or imports              *)
(***************************************************************************)
\* display names typed into the category prompts and the new-category box
CatNames ==
  { <<" ","P","e","t","s"," ">>,
    <<"a","r","t","/","P","e","t","s">> }

FormTitles == {"  ", " Edited title"}
FormTexts == {"Edited text", " "}
FormRatings == {4}

Range(f) == {f[i] : i \in DOMAIN f}

(***************************************************************************)
(* Records                                                                 *)
(***************************************************************************)
\* the object literal of savePrompt's create branch
NewPrompt(id, title, category, tags, text, notes, rating, resultImages, inputImage, now) ==
  [id |-> id, title |-> title, category |-> category, tags |-> tags,
   text |-> text, notes |-> notes, rating |-> rating,
   resultImages |-> resultImages, inputImage |-> inputImage,
   createdAt |-> now, updatedAt |-> now]

\* the two records of addSampleData (no rating field)
SampleData ==
  << [id |-> 1, title |-> "Fantasy Landscape Painting", category |-> KeyArt,
      tags |-> <<"landscape", "fantasy", "painting", "detailed">>,
      text |-> "A breathtaking fantasy landscape", notes |-> "Works best with DALL-E 3",
      rating |-> Undefined, resultImages |-> <<>>, inputImage |-> Null,
      createdAt |-> 0, updatedAt |-> 0],
     [id |-> 2, title |-> "Python Data Analysis Script", category |-> KeyCode,
      tags |-> <<"python", "data", "analysis", "pandas">>,
      text |-> "Create a Python script using pandas", notes |-> "Adjust column names",
      rating |-> Undefined, resultImages |-> <<>>, inputImage |-> Null,
      createdAt |-> 0, updatedAt |-> 0] >>

\* prompt.rating || 0
ratingOf(p) == IF p.rating = Undefined THEN 0 ELSE p.rating

IdsOf(ps) == {ps[i].id : i \in DOMAIN ps}

\* prompts.findIndex(p => p.id === id): 0 stands for -1
findIndex(ps, id) ==
  IF \E i \in DOMAIN ps : ps[i].id = id
  THEN CHOOSE i \in DOMAIN ps : ps[i].id = id /\ \A j \in 1..(i - 1) : ps[j].id # id
  ELSE 0

\* arr.indexOf(x): 0 stands for -1
indexOf(arr, x) ==
  IF \E i \in DOMAIN arr : arr[i] = x
  THEN CHOOSE i \in DOMAIN arr : arr[i] = x /\ \A j \in 1..(i - 1) : arr[j] # x
  ELSE 0

\* arr.splice(i, 1)
splice1(arr, i) == SubSeq(arr, 1, i - 1) \o SubSeq(arr, i + 1, Len(arr))

(***************************************************************************)
(* JSON.stringify / JSON.parse of the record collection.  A record is an   *)
(* object of strings, numbers, arrays and null; a field that is undefined  *)
(* is left out by stringify and reads as undefined after parse.            *)
(***************************************************************************)
JSONstringify(ps) == [json |-> ps]
JSONparse(str) == str.json

(***************************************************************************)
(* Undo / redo                                                             *)
(***************************************************************************)
\* saveState() without the limit of 20 states
saveState_NoLimit(ps, us) == Append(us, JSONstringify(ps))

\* a saveState() that writes over the newest snapshot instead of pushing
saveState_ReplaceTop(ps, us) ==
  IF Len(us) = 0 THEN <<JSONstringify(ps)>>
  ELSE [us EXCEPT ![Len(us)] = JSONstringify(ps)]

\* saveState(): the new undoStack
saveState(ps, us) ==
  LET pushed == Append(us, JSONstringify(ps))
  IN IF Len(pushed) > UndoLimit THEN Tail(pushed) ELSE pushed

\* an undo that does not look whether there is anything to undo
undoFn_NoGuard(ps, us, rs) ==
  [prompts |-> IF Len(us) > 0 THEN JSONparse(us[Len(us)]) ELSE ps,
   undoStack |-> SubSeq(us, 1, Len(us) - 1),
   redoStack |-> Append(rs, JSONstringify(ps))]

\* undo(): the collection and the two stacks after the call
undoFn(ps, us, rs) ==
  IF Len(us) > 0
  THEN [prompts |-> JSONparse(us[Len(us)]),
        undoStack |-> SubSeq(us, 1, Len(us) - 1),
        redoStack |-> Append(rs, JSONstringify(ps))]
  ELSE [prompts |-> ps, undoStack |-> us, redoStack |-> rs]

\* a redo that leaves the snapshot it restores on the redo stack
redoFn_NoPop(ps, us, rs) ==
  IF Len(rs) > 0
  THEN [prompts |-> JSONparse(rs[Len(rs)]),
        undoStack |-> Append(us, JSONstringify(ps)),
        redoStack |-> rs]
  ELSE [prompts |-> ps, undoStack |-> us, redoStack |-> rs]

\* redo(): the collection and the two stacks after the call
redoFn(ps, us, rs) ==
  IF Len(rs) > 0
  THEN [prompts |-> JSONparse(rs[Len(rs)]),
        undoStack |-> Append(us, JSONstringify(ps)),
        redoStack |-> SubSeq(rs, 1, Len(rs) - 1)]
  ELSE [prompts |-> ps, undoStack |-> us, redoStack |-> rs]

(***************************************************************************)
(* The category list.  catItems is the sequence of the li elements of      *)
(* #categoryList in document order; depth 0 is a child of the list itself, *)
(* depth d + 1 a li of the sublist of the nearest preceding li of depth d. *)
(* hidden is the display of the li's delete button.  catOptions is the     *)
(* sequence of the option values of select#promptCategory.                 *)
(***************************************************************************)
CatItem(key, name, depth) ==
  [key |-> key, name |-> name, depth |-> depth]

\* makeCategoryItem(li): lower-cases the key and hides the delete button of
\* a protected key
makeCategoryItem(li) ==
  LET key == toLowerCase(li.key)
  IN [key |-> key, name |-> trim(li.name), depth |-> li.depth,
      hidden |-> key \in protect]

\* the last index of the DOM subtree of the li at index i
SubtreeEnd(items, i) ==
  IF \E j \in (i + 1)..Len(items) : items[j].depth <= items[i].depth
  THEN (CHOOSE j \in (i + 1)..Len(items) :
          /\ items[j].depth <= items[i].depth
          /\ \A k \in (i + 1)..(j - 1) : items[k].depth > items[i].depth) - 1
  ELSE Len(items)

KeysOf(items) == {items[i].key : i \in DOMAIN items}

\* Array.from(document.querySelectorAll('#categoryList li')).some(li => li.dataset.category === key)
exists(items, key) == \E i \in DOMAIN items : items[i].key = key

\* index of the first li with that key (querySelector), 0 when none
querySelectorLi(items, key) ==
  IF \E i \in DOMAIN items : items[i].key = key
  THEN CHOOSE i \in DOMAIN items : items[i].key = key /\ \A j \in 1..(i - 1) : items[j].key # key
  ELSE 0

\* select.insertBefore(option, select.lastElementChild)
insertOption(opts, value) ==
  IF opts = <<>> THEN <<value>>
  ELSE SubSeq(opts, 1, Len(opts) - 1) \o <<value>> \o <<opts[Len(opts)]>>

\* the forEach over the li elements of updateDescendantKeys
RECURSIVE renameDescendantLis(_, _, _, _, _)
renameDescendantLis(items, opts, i, oldKey, newKey) ==
  IF i > Len(items) THEN [items |-> items, opts |-> opts]
  ELSE LET key == items[i].key
       IN IF key # <<>> /\ key # oldKey /\ startsWith(key, oldKey \o Slash)
          THEN LET rest == slice(key, Len(oldKey) + 1)
                   newChildKey == newKey \o Slash \o rest
                   o == indexOf(opts, key)
               IN renameDescendantLis(
                    [items EXCEPT ![i].key = newChildKey],
                    IF o # 0 THEN [opts EXCEPT ![o] = newChildKey] ELSE opts,
                    i + 1, oldKey, newKey)
          ELSE renameDescendantLis(items, opts, i + 1, oldKey, newKey)

\* the forEach over prompts of updateDescendantKeys
renamePromptCategories(ps, oldKey, newKey) ==
  [i \in DOMAIN ps |->
     IF ps[i].category = oldKey THEN [ps[i] EXCEPT !.category = newKey]
     ELSE IF ps[i].category # <<>> /\ startsWith(ps[i].category, oldKey \o Slash)
          THEN [ps[i] EXCEPT !.category = newKey \o slice(ps[i].category, Len(oldKey))]
          ELSE ps[i]]

\* updateDescendantKeys(oldKey, newKey, newDisplay)
updateDescendantKeys(items, opts, ps, oldKey, newKey, newDisplay) ==
  LET li == querySelectorLi(items, oldKey)
      items1 == IF li # 0
                THEN [items EXCEPT ![li].key = newKey, ![li].name = newDisplay]
                ELSE items
      r == renameDescendantLis(items1, opts, 1, oldKey, newKey)
      o == indexOf(r.opts, oldKey)
      opts2 == IF o # 0 THEN [r.opts EXCEPT ![o] = newKey] ELSE r.opts
  IN [items |-> r.items, opts |-> opts2,
      prompts |-> renamePromptCategories(ps, oldKey, newKey)]

\* deleteCategoryAndDescendants(keyToDelete, liElement), liElement the li at index li
deleteCategoryAndDescendants(items, opts, ps, keyToDelete, li) ==
  LET hit(c) == c = keyToDelete \/ (c # <<>> /\ startsWith(c, keyToDelete \o Slash))
      keepOpt(v) == ~hit(v)
  IN [prompts |-> [i \in DOMAIN ps |->
                     IF hit(ps[i].category) THEN [ps[i] EXCEPT !.category = KeyOther]
                     ELSE ps[i]],
      opts |-> SelectSeq(opts, keepOpt),
      items |-> SubSeq(items, 1, li - 1) \o SubSeq(items, SubtreeEnd(items, li) + 1, Len(items))]

(***************************************************************************)
(* Import payloads: the prompts array of the chosen file.  A missing field *)
(* is 0 (id), "" (strings), <<>> (category) or Undefined (timestamps).     *)
(***************************************************************************)
KeyZoo == <<"z","o","o">>

RawPrompt(id, title, category) ==
  [id |-> id, title |-> title, category |-> category, tags |-> <<>>,
   text |-> "Imported text", notes |-> "", rating |-> 5,
   resultImages |-> <<>>, inputImage |-> Null,
   createdAt |-> 0, updatedAt |-> Undefined]

ImportPayloads ==
  { << RawPrompt(0, "", KeyZoo) >>,
    << RawPrompt(1, "Imported title", <<>>), RawPrompt(1, "Imported again", KeyArt) >> }

\* no file: nothing was chosen, nothing was exported yet
NoFile == [json |-> FALSE, promptsIs |-> "undefined", prompts |-> <<>>]

\* the document of a chosen file: whether it parses as JSON, and what its
\* prompts member is
ImportFile(data) == [json |-> TRUE, promptsIs |-> "array", prompts |-> data]

MalformedFiles ==
  { [json |-> FALSE, promptsIs |-> "undefined", prompts |-> <<>>],
    [json |-> TRUE, promptsIs |-> "undefined", prompts |-> <<>>],
    [json |-> TRUE, promptsIs |-> "string", prompts |-> <<>>] }

\* generateId(): an id no live value refers to (the smallest one, ids being
\* opaque and only compared for equality)
generateId(used) == CHOOSE n \in 1..(Cardinality(used) + 1) :
                      n \notin used /\ \A m \in 1..(n - 1) : m \in used

StackIds(stack) == UNION {IdsOf(JSONparse(stack[i])) : i \in DOMAIN stack}

\* the map() of handleFileImport over the imported array
RECURSIVE importMap(_, _, _)
importMap(raw, used, now) ==
  IF raw = <<>> THEN <<>>
  ELSE LET p == Head(raw)
           id == IF p.id # 0 THEN p.id ELSE generateId(used)
       IN << [id |-> id,
              title |-> IF p.title # "" THEN p.title ELSE "Untitled",
              category |-> IF p.category # <<>> THEN p.category ELSE KeyOther,
              tags |-> p.tags, text |-> p.text, notes |-> p.notes,
              rating |-> Undefined,
              resultImages |-> p.resultImages,
              inputImage |-> IF p.inputImage = UndefinedValue THEN Null ELSE p.inputImage,
              createdAt |-> IF p.createdAt # Undefined THEN p.createdAt ELSE now,
              updatedAt |-> IF p.updatedAt # Undefined THEN p.updatedAt ELSE now] >>
          \o importMap(Tail(raw), used \cup {id}, now)

(***************************************************************************)
(* The image boxes of the prompt form.  A box has the class has-image or   *)
(* not and an id ('' or type-index); imageCache maps a box id to the data  *)
(* of the file uploaded for it, a missing key reading as undefined.        *)
(***************************************************************************)
ResultBoxes == <<"result-0", "result-1", "result-2">>
InputBox == "input"
BoxIds == Range(ResultBoxes) \cup {InputBox}

Images == {"data:image/png;base64,AAAA"}

EmptyBox == [hasImage |-> FALSE, id |-> ""]

\* imageCache.get(id)
cacheGet(cache, id) == IF id \in DOMAIN cache THEN cache[id] ELSE UndefinedValue

\* imageCache.delete(id)
cacheDelete(cache, id) ==
  [k \in DOMAIN cache |-> IF k = id THEN UndefinedValue ELSE cache[k]]

\* imageCache.clear()
cacheClear(cache) == [k \in DOMAIN cache |-> UndefinedValue]

\* removeImage(imageBox) on every box of the form: [imageCache, boxes]
RECURSIVE removeImages(_, _, _)
removeImages(cache, bs, todo) ==
  IF todo = {} THEN [imageCache |-> cache, boxes |-> bs]
  ELSE LET b == CHOOSE x \in todo : TRUE
       IN removeImages(cacheDelete(cache, bs[b].id), [bs EXCEPT ![b] = EmptyBox], todo \ {b})

\* displayImagePreview(imageBox, imageData): the box shows an image and
\* gets its id; imageCache is not written
displayImagePreview(bs, b) == [bs EXCEPT ![b] = [hasImage |-> TRUE, id |-> b]]

\* resetForm(): every box emptied, imageCache cleared
resetForm(cache, bs) ==
  [imageCache |-> cacheClear(removeImages(cache, bs, DOMAIN bs).imageCache),
   boxes |-> removeImages(cache, bs, DOMAIN bs).boxes]

\* editPrompt's filling of the boxes from the record p
RECURSIVE showResultImages(_, _, _)
showResultImages(bs, imgs, index) ==
  IF index > Len(imgs) THEN bs
  ELSE showResultImages(IF index <= 3 THEN displayImagePreview(bs, ResultBoxes[index]) ELSE bs,
                        imgs, index + 1)

fillBoxes(cache, bs, p) ==
  LET cleared == removeImages(cache, bs, DOMAIN bs)
      withResults == showResultImages(cleared.boxes, p.resultImages, 1)
  IN [imageCache |-> cleared.imageCache,
      boxes |-> IF p.inputImage \notin {Null, UndefinedValue}
                THEN displayImagePreview(withResults, InputBox) ELSE withResults]

\* savePrompt's reading of the result boxes
RECURSIVE readResultImages(_, _, _)
readResultImages(cache, bs, index) ==
  IF index > Len(ResultBoxes) THEN <<>>
  ELSE LET box == bs[ResultBoxes[index]]
           img == cacheGet(cache, box.id)
       IN (IF box.hasImage /\ img # UndefinedValue THEN <<img>> ELSE <<>>)
            \o readResultImages(cache, bs, index + 1)

\* savePrompt's reading of the input box
readInputImage(cache, bs) ==
  IF bs[InputBox].hasImage THEN cacheGet(cache, bs[InputBox].id) ELSE Null

(***************************************************************************)
(* State after construction: no saved data, so initializeApp adds the      *)
(* sample data; the category list and the select as the page declares them *)
(***************************************************************************)
\* the handler that ran last, with the li, the key, the name, the record or
\* timer id and the form or search text it was given, and the ids of the
\* timers it cancelled
Op(op) == [op |-> op, key |-> <<>>, li |-> 0, name |-> <<>>, id |-> 0,
           title |-> "", text |-> "", cancelled |-> {}, toast |-> "", file |-> NoFile]

\* searchCache = {}
EmptyCache == [term \in {} |-> <<>>]

NoAction == [kind |-> "none", id |-> 0, key |-> <<>>, li |-> 0, data |-> <<>>]

InitialCatItems ==
  << makeCategoryItem(CatItem(KeyFavorites, <<"F","a","v","o","r","i","t","e","s">>, 0)),
     makeCategoryItem(CatItem(KeyArt, <<"A","r","t">>, 0)),
     makeCategoryItem(CatItem(KeyCode, <<"C","o","d","e">>, 0)),
     makeCategoryItem(CatItem(KeyOther, <<"O","t","h","e","r">>, 0)) >>

InitialCatOptions == <<KeyArt, KeyCode, KeyOther>>

(***************************************************************************)
(* The statistics of a record                                              *)
(***************************************************************************)
\* the characters \s matches among those of the texts
WhiteSpace == {" ", "\t", "\n"}

\* text.trim() for the white space of WhiteSpace
trimWhiteSpace(text) ==
  LET kept == {i \in 1..Len(text) : SubSeq(text, i, i) \notin WhiteSpace}
  IN IF kept = {} THEN ""
     ELSE SubSeq(text, CHOOSE i \in kept : \A j \in kept : i <= j,
                       CHOOSE i \in kept : \A j \in kept : i >= j)

\* the pieces of text between any two of its separators, the empty piece
\* between two neighbours included
RECURSIVE splitEach(_, _)
splitEach(text, separators) ==
  IF Len(text) = 0 THEN <<"">>
  ELSE IF Len(text) = 1 THEN (IF text \in separators THEN <<"", "">> ELSE <<text>>)
  ELSE LET half == Len(text) \div 2
           left == splitEach(SubSeq(text, 1, half), separators)
           right == splitEach(SubSeq(text, half + 1, Len(text)), separators)
       IN SubSeq(left, 1, Len(left) - 1) \o <<left[Len(left)] \o right[1]>>
            \o SubSeq(right, 2, Len(right))

\* text.split(/[...]+/) for the characters of separators: the pieces
\* between the runs of separators, the empty piece before a leading run and
\* after a trailing one included
splitRuns(text, separators) ==
  LET each == splitEach(text, separators)
  IN IF Len(each) <= 2 THEN each
     ELSE <<each[1]>> \o SelectSeq(SubSeq(each, 2, Len(each) - 1), LAMBDA piece : piece # "")
            \o <<each[Len(each)]>>

\* text.split(/\s+/)
splitWhiteSpace(text) == splitRuns(text, WhiteSpace)

\* calculateWordCount(text) of script.js
calculateWordCount(text) == Len(splitWhiteSpace(trimWhiteSpace(text)))

\* calculateWordCount(text) of the version README.md lists
viewCalculateWordCount(text) ==
  IF text = "" THEN 0
  ELSE Len(SelectSeq(splitWhiteSpace(trimWhiteSpace(text)), LAMBDA word : Len(word) > 0))

\* Math.min(score, 5) after the five increments
complexityScore(words, hasNotes, hasImages, tagCount) ==
  LET score == 1 + (IF words > 100 THEN 1 ELSE 0) + (IF words > 200 THEN 1 ELSE 0)
                 + (IF hasNotes THEN 1 ELSE 0) + (IF hasImages THEN 1 ELSE 0)
                 + (IF tagCount >= 3 THEN 1 ELSE 0)
  IN IF score < 5 THEN score ELSE 5

\* calculateComplexity(prompt) of script.js: the result images count, the
\* input image does not
calculateComplexity(prompt) ==
  complexityScore(calculateWordCount(prompt.text), Len(prompt.notes) > 50,
                  Len(prompt.resultImages) > 0, Len(prompt.tags))

\* calculateComplexity(prompt) of the version README.md lists
viewCalculateComplexity(prompt) ==
  complexityScore(viewCalculateWordCount(prompt.content), Len(prompt.notes) > 50,
                  Len(prompt.images) > 0, Len(prompt.tags))

(***************************************************************************)
(* The list view of the version README.md lists: filter, sort, paginate    *)
(***************************************************************************)
\* state.pageSize
pageSize == 12

\* the day the page is open, and the days of the 'recent' filter
Today == 30
RecentDays == 7

\* the data-filter values of the filter buttons, and the filter a click on
\* a category sets
FilterAll == "all"
FilterFavorites == "favorites"
FilterCategory == "category"
Filters == {FilterAll, FilterFavorites, "recent", "withImages"}

\* the values of the sort select
Sorts == {"newest", "oldest", "title", "rating", "complexity"}

\* the place of a character in the collation of localeCompare: the space,
\* the digits, the letters; 0 for any other character
Collation == " 0123456789abcdefghijklmnopqrstuvwxyz"
collationRank(c) ==
  IF \E i \in 1..Len(Collation) : SubSeq(Collation, i, i) = c
  THEN CHOOSE i \in 1..Len(Collation) : SubSeq(Collation, i, i) = c
  ELSE 0

\* a.localeCompare(b) on titles of letters, digits and spaces: negative,
\* zero or positive; letters compare without their case, and of two titles
\* that differ in case only the one with the first lower-case letter is first
localeCompare(a, b) ==
  LET \* la and lb are a and b in lower case
      compare(la, lb) ==
        LET shorter == IF Len(la) < Len(lb) THEN Len(la) ELSE Len(lb)
            differ == {i \in 1..shorter :
                         collationRank(SubSeq(la, i, i)) # collationRank(SubSeq(lb, i, i))}
            caseDiffer == {i \in 1..shorter : SubSeq(a, i, i) # SubSeq(b, i, i)}
        IN IF a = b THEN 0
           ELSE IF differ # {}
           THEN (\* the first character of another place decides
                 LET i == CHOOSE k \in differ : \A j \in differ : k <= j
                 IN IF collationRank(SubSeq(la, i, i)) < collationRank(SubSeq(lb, i, i))
                    THEN -1 ELSE 1)
           ELSE IF Len(la) < Len(lb) THEN -1
           ELSE IF Len(la) > Len(lb) THEN 1
           ELSE (\* the same letters: the first character of another case decides
                 LET i == CHOOSE k \in caseDiffer : \A j \in caseDiffer : k <= j
                 IN IF SubSeq(a, i, i) = SubSeq(la, i, i) THEN -1 ELSE 1)
  IN compare(strToLowerCase(a), strToLowerCase(b))

\* the filter of the search query in getFilteredPrompts
matchesQuery(prompt, searchQuery) ==
  \/ includes(strToLowerCase(prompt.title), searchQuery)
  \/ includes(strToLowerCase(prompt.content), searchQuery)
  \/ \E k \in DOMAIN prompt.tags : includes(strToLowerCase(prompt.tags[k]), searchQuery)
  \/ prompt.notes # "" /\ includes(strToLowerCase(prompt.notes), searchQuery)

\* getFilteredPrompts(): st is the state object, active the data-category
\* of the .category-item.active element (Null without one)
getFilteredPrompts(st, active) ==
  LET \* the filter of state.currentFilter on the list the category left
      filterOf(byCategory) ==
        CASE st.currentFilter = FilterFavorites ->
               SelectSeq(byCategory, LAMBDA p : indexOf(st.favorites, p.id) # 0)
          [] st.currentFilter = "recent" ->
               SelectSeq(byCategory, LAMBDA p : p.createdAt > Today - RecentDays)
          [] st.currentFilter = "withImages" ->
               SelectSeq(byCategory, LAMBDA p : Len(p.images) > 0)
          [] OTHER -> byCategory
      \* the filter of the active category on the list the search left
      categoryOf(bySearch) ==
        filterOf(IF st.currentFilter = FilterCategory /\ active # Null
                 THEN SelectSeq(bySearch, LAMBDA p : p.category = active)
                 ELSE bySearch)
  IN categoryOf(IF st.searchQuery # ""
                THEN SelectSeq(st.prompts, LAMBDA p : matchesQuery(p, st.searchQuery))
                ELSE st.prompts)

\* prompt.complexity || 0
storedComplexity(p) == IF p.complexity = Undefined THEN 0 ELSE p.complexity

\* the comparator of sortPrompts for a sort: negative when a goes first
compareFn(sort, a, b) ==
  CASE sort = "newest" -> b.createdAt - a.createdAt
    [] sort = "oldest" -> a.createdAt - b.createdAt
    [] sort = "title" -> localeCompare(a.title, b.title)
    [] sort = "rating" -> ratingOf(b) - ratingOf(a)
    [] sort = "complexity" -> storedComplexity(b) - storedComplexity(a)
    [] OTHER -> 0

\* Array.prototype.sort is stable: x, which came after every element of
\* the sorted list, goes before the first element that compares after it
RECURSIVE insertSorted(_, _, _)
insertSorted(sorted, x, sort) ==
  IF sorted = <<>> THEN <<x>>
  ELSE IF compareFn(sort, Head(sorted), x) > 0 THEN <<x>> \o sorted
  ELSE <<Head(sorted)>> \o insertSorted(Tail(sorted), x, sort)

\* sortPrompts(prompts) under state.currentSort
RECURSIVE sortPrompts(_, _)
sortPrompts(ps, sort) ==
  IF ps = <<>> THEN <<>>
  ELSE insertSorted(sortPrompts(SubSeq(ps, 1, Len(ps) - 1), sort), ps[Len(ps)], sort)

\* a slice that ends one record early
paginatePrompts_ShortPage(ps, currentPage, size) ==
  LET startIndex == (currentPage - 1) * size
      endIndex == startIndex + size - 1
  IN IF startIndex >= Len(ps) THEN <<>>
     ELSE SubSeq(ps, startIndex + 1, IF endIndex > Len(ps) THEN Len(ps) ELSE endIndex)

\* paginatePrompts(prompts): prompts.slice(startIndex, endIndex)
paginatePrompts(ps, currentPage, size) ==
  LET startIndex == (currentPage - 1) * size
      endIndex == startIndex + size
  IN IF startIndex >= Len(ps) THEN <<>>
     ELSE SubSeq(ps, startIndex + 1, IF endIndex > Len(ps) THEN Len(ps) ELSE endIndex)

\* Math.ceil(totalItems / state.pageSize)
totalPagesOf(totalItems, size) == (totalItems + size - 1) \div size

\* the list before any search: hidden and empty
NoSuggestions == [active |-> FALSE, items |-> <<>>]

\* the pagination bar before any render
NoPagination ==
  [display |-> "none", totalPages |-> 0, prevDisabled |-> TRUE, nextDisabled |-> TRUE,
   pageNumbers |-> {}]

\* updatePagination(totalItems): the bar after it. With one page or none it
\* hides the bar and leaves its buttons as they were; else the buttons are
\* made for currentPage and totalPages
updatePagination(pag, currentPage, totalItems, size) ==
  LET totalPages == totalPagesOf(totalItems, size)
      startPage0 == IF currentPage - 2 > 1 THEN currentPage - 2 ELSE 1
      endPage == IF startPage0 + 4 < totalPages THEN startPage0 + 4 ELSE totalPages
      startPage == IF endPage - startPage0 < 4
                   THEN (IF endPage - 4 > 1 THEN endPage - 4 ELSE 1)
                   ELSE startPage0
  IN IF totalPages <= 1 THEN [pag EXCEPT !.display = "none"]
     ELSE [display |-> "flex", totalPages |-> totalPages,
           prevDisabled |-> (currentPage = 1),
           nextDisabled |-> (currentPage = totalPages),
           pageNumbers |-> (startPage..endPage) \cup
                             (IF endPage < totalPages THEN {totalPages} ELSE {})]

\* renderPrompts(): the ids of the cards in the container and the
\* pagination bar after it; an empty page shows the empty state and returns
\* before updatePagination
renderPrompts(st, active, pag) ==
  LET page(filteredPrompts, paginatedPrompts) ==
        IF paginatedPrompts = <<>>
        THEN [container |-> <<>>, pagination |-> pag]
        ELSE [container |-> [i \in DOMAIN paginatedPrompts |-> paginatedPrompts[i].id],
              pagination |-> updatePagination(pag, st.currentPage, Len(filteredPrompts),
                                              st.pageSize)]
      list(filteredPrompts) ==
        page(filteredPrompts,
             paginatePrompts(sortPrompts(filteredPrompts, st.currentSort),
                             st.currentPage, st.pageSize))
  IN list(getFilteredPrompts(st, active))

\* a record of the stored collection: the odd ones are fantasy art, the
\* even ones scripts; every fifth has a note
StoredPrompt(i) ==
  [id |-> i,
   title |-> IF i % 2 = 1 THEN "Fan Art" ELSE "Script",
   category |-> CASE i % 3 = 0 -> "art" [] i % 3 = 1 -> "art/landscape" [] OTHER -> "code",
   content |-> IF i % 2 = 1 THEN "A forest" ELSE "Use pandas",
   tags |-> IF i % 2 = 1 THEN <<"fantasy", "oil", "art">> ELSE <<"py">>,
   notes |-> IF i % 5 = 0 THEN "Fan brush" ELSE "",
   rating |-> IF i % 7 = 0 THEN Undefined ELSE i % 6,
   complexity |-> IF i % 4 = 0 THEN Undefined ELSE (i % 5) + 1,
   images |-> IF i % 3 = 0 THEN <<"image">> ELSE <<>>,
   createdAt |-> Today - (i % 3) * 5]

\* the collection localStorage holds when the page opens: n records
StoredCollection(n) == [i \in 1..n |-> StoredPrompt(i)]

\* DEFAULT_CATEGORIES: the ids and names state.categories holds, in the
\* order of the Map
DefaultCategories ==
  << [id |-> "art", name |-> "Art & Images"], [id |-> "writing", name |-> "Writing"],
     [id |-> "code", name |-> "Code & Technical"], [id |-> "analysis", name |-> "Analysis"],
     [id |-> "creative", name |-> "Creative"], [id |-> "other", name |-> "Other"] >>

\* the state object after loadState() read a stored collection
loadState(stored) ==
  [prompts |-> stored, favorites |-> <<>>, currentFilter |-> FilterAll,
   currentSort |-> "newest", searchQuery |-> "", currentPage |-> 1,
   pageSize |-> pageSize, selectedPrompts |-> {},
   categories |-> DefaultCategories,
   pendingConfirmAction |-> [kind |-> "none", id |-> 0]]

\* the list view after initializeApp() with a stored collection
InitView(stored) ==
  \E r \in {renderPrompts(loadState(stored), Null, NoPagination)} :
     /\ state = loadState(stored)
     /\ activeCategory = Null
     /\ pagination = r.pagination
     /\ promptsContainer = r.container
     /\ viewSuggestions = NoSuggestions

\* no statistics function was called yet
InitStat ==
  /\ argPrompt = StoredPrompt(1)
  /\ argText = ""
  /\ wordCount = 0
  /\ complexity = 0

\* the page of script.js after initializeApp() on a stored collection
InitCollection(stored) ==
  /\ prompts = stored
  /\ favorites = <<>>
  /\ undoStack = <<>>
  /\ redoStack = <<>>
  /\ editingPromptId = 0
  /\ pendingConfirmAction = NoAction
  /\ modals = {}
  /\ currentCategory = KeyFavorites
  /\ catItems = InitialCatItems
  /\ catOptions = InitialCatOptions
  /\ clock = 0
  /\ lastOp = Op("init")
  /\ steps = 0
  /\ searchCache = EmptyCache
  /\ searchTimeoutId = 0
  /\ timers = {}
  /\ suggestions = NoSuggestions
  /\ imageCache = [k \in BoxIds |-> UndefinedValue]
  /\ boxes = [b \in BoxIds |-> EmptyBox]
  /\ promptRating = 0
  /\ selectedPrompts = {}
  /\ exportedFile = NoFile
  /\ editDistance = 0
  /\ similarity = [num |-> 1, den |-> 1]
  /\ duplicates = <<>>

\* the page opened on empty storage: addSampleData() fills the collection
InitProgram == InitCollection(SampleData)

\* no function of the duplicate detection was called yet
Init ==
  /\ InitProgram
  /\ str1 = "" /\ str2 = ""
  /\ InitView(StoredCollection(1))
  /\ InitStat

\* the cards loadPrompts renders for the active category
VisibleIds ==
  IF currentCategory = KeyFavorites
  THEN {prompts[i].id : i \in {j \in DOMAIN prompts : indexOf(favorites, prompts[j].id) # 0}}
  ELSE IF currentCategory # KeyAll
       THEN {prompts[i].id : i \in {j \in DOMAIN prompts : prompts[j].category = currentCategory}}
       ELSE IdsOf(prompts)

\* the page behind an active modal takes no clicks
PageClickable == modals = {}

UsedIds ==
  IdsOf(prompts) \cup StackIds(undoStack) \cup StackIds(redoStack)
    \cup Range(favorites) \cup {editingPromptId, pendingConfirmAction.id}
    \cup IdsOf(pendingConfirmAction.data)

(***************************************************************************)
(* Record operations                                                       *)
(***************************************************************************)
\* closeAllModals(): every modal loses its active class, the form is reset
closeAllModalsFn(ms) == {}

\* savePrompt calling saveState() after the change instead of before it
savePromptFn_SnapshotAfter(ps, us, editing, newId, title, category, tags, text, notes, rating, resultImages, inputImage, now) ==
  LET index == findIndex(ps, editing)
      after ==
        IF editing # 0
        THEN IF index # 0
             THEN [ps EXCEPT ![index] =
                     [ps[index] EXCEPT !.title = title, !.category = category,
                        !.tags = tags, !.text = text, !.notes = notes,
                        !.rating = rating, !.resultImages = resultImages,
                        !.inputImage = inputImage, !.updatedAt = now]]
             ELSE ps
        ELSE <<NewPrompt(newId, title, category, tags, text, notes, rating,
                         resultImages, inputImage, now)>> \o ps
  IN [undoStack |-> saveState(after, us), redoStack |-> <<>>, prompts |-> after]

\* savePrompt past its validation: saveState(), then the update or the
\* create branch; editing is editingPromptId (0 for null), newId the value
\* of generateId()
savePromptFn(ps, us, editing, newId, title, category, tags, text, notes, rating, resultImages, inputImage, now) ==
  LET index == findIndex(ps, editing)
  IN [undoStack |-> saveState(ps, us),
      redoStack |-> <<>>,
      prompts |->
        IF editing # 0
        THEN IF index # 0
             THEN [ps EXCEPT ![index] =
                     [ps[index] EXCEPT !.title = title, !.category = category,
                        !.tags = tags, !.text = text, !.notes = notes,
                        !.rating = rating, !.resultImages = resultImages,
                        !.inputImage = inputImage, !.updatedAt = now]]
             ELSE ps
        ELSE <<NewPrompt(newId, title, category, tags, text, notes, rating,
                         resultImages, inputImage, now)>> \o ps]

\* addNewPrompt(): the + buttons, or Ctrl+N from anywhere
addNewPrompt ==
  /\ editingPromptId' = 0
  /\ modals' = modals \cup {"promptModal"}
  /\ lastOp' = Op("addNewPrompt")
  /\ imageCache' = resetForm(imageCache, boxes).imageCache
  /\ boxes' = resetForm(imageCache, boxes).boxes
  /\ promptRating' = 0
  /\ UNCHANGED <<vaultVars, searchVars, prompts, favorites, undoStack, redoStack, pendingConfirmAction,
                 currentCategory, catItems, catOptions, clock>>

\* editPrompt(promptId): the edit button of a rendered card
editPrompt(promptId) ==
  /\ PageClickable
  /\ promptId \in VisibleIds
  /\ findIndex(prompts, promptId) # 0
  /\ editingPromptId' = promptId
  /\ modals' = modals \cup {"promptModal"}
  /\ lastOp' = [Op("editPrompt") EXCEPT !.id = promptId]
  /\ LET f == fillBoxes(imageCache, boxes, prompts[findIndex(prompts, promptId)])
     IN /\ imageCache' = f.imageCache
        /\ boxes' = f.boxes
  /\ promptRating' = ratingOf(prompts[findIndex(prompts, promptId)])
  /\ UNCHANGED <<vaultVars, searchVars, prompts, favorites, undoStack, redoStack, pendingConfirmAction,
                 currentCategory, catItems, catOptions, clock>>

\* handleImageUpload(input) with an image file chosen for the box b of the
\* open form, and the onload of its reader: the data goes into imageCache
\* under the id of the box, and the box shows it
handleImageUpload(b, imageData) ==
  /\ "promptModal" \in modals
  /\ imageCache' = [imageCache EXCEPT ![b] = imageData]
  /\ boxes' = displayImagePreview(boxes, b)
  /\ lastOp' = Op("handleImageUpload")
  /\ UNCHANGED <<vaultVars, promptRating, searchVars, prompts, favorites, undoStack, redoStack, editingPromptId,
                 pendingConfirmAction, modals, currentCategory, catItems, catOptions, clock>>

\* a validation that does not look at the text
required_TitleOnly(title, category, text) == title # "" /\ category # <<>>

\* savePrompt's validation of the trimmed title, the category and the trimmed text
required(title, category, text) == title # "" /\ category # <<>> /\ text # ""

\* savePrompt(event): submit of the form in the prompt modal, the arguments
\* being the values of the form fields
savePrompt(titleValue, category, tags, textValue, notes, rating) ==
  /\ "promptModal" \in modals
  /\ LET title == strTrim(titleValue)
         text == strTrim(textValue)
         resultImages == readResultImages(imageCache, boxes, 1)
         inputImage == readInputImage(imageCache, boxes)
         us == saveState(prompts, undoStack)
         used == IdsOf(prompts) \cup StackIds(us) \cup Range(favorites)
                   \cup {editingPromptId, pendingConfirmAction.id}
                   \cup IdsOf(pendingConfirmAction.data)
         r == savePromptFn(prompts, undoStack, editingPromptId, generateId(used),
                           title, category, tags, text, notes, rating,
                           resultImages, inputImage, clock)
         op == [Op("savePrompt") EXCEPT !.key = category, !.id = editingPromptId,
                                        !.title = titleValue, !.text = textValue]
     IN IF required(title, category, text)
        THEN /\ prompts' = r.prompts
             /\ undoStack' = r.undoStack
             /\ redoStack' = r.redoStack
             /\ searchCache' = EmptyCache
             /\ modals' = closeAllModalsFn(modals)
             /\ imageCache' = resetForm(imageCache, boxes).imageCache
             /\ boxes' = resetForm(imageCache, boxes).boxes
             /\ promptRating' = 0
             /\ lastOp' = [op EXCEPT !.op =
                              IF editingPromptId = 0 THEN "savePrompt:create"
                              ELSE IF findIndex(prompts, editingPromptId) # 0
                                   THEN "savePrompt:update" ELSE "savePrompt:stale"]
        ELSE /\ lastOp' = [op EXCEPT !.op = "savePrompt:rejected"]
             /\ promptRating' = rating
             /\ UNCHANGED <<prompts, undoStack, redoStack, searchCache, modals, imageCache, boxes>>
  /\ UNCHANGED <<vaultVars, searchTimeoutId, timers, suggestions, favorites, editingPromptId, pendingConfirmAction,
                 currentCategory, catItems, catOptions, clock>>

\* the confirmed callback of deletePrompt(promptId)
deletePromptConfirmed(ps, favs, promptId) ==
  LET index == findIndex(ps, promptId)
      favIndex == indexOf(favs, promptId)
  IN IF index # 0
     THEN [prompts |-> splice1(ps, index),
           favorites |-> IF favIndex # 0 THEN splice1(favs, favIndex) ELSE favs]
     ELSE [prompts |-> ps, favorites |-> favs]

\* deletePrompt(promptId): the delete button of a rendered card asks for confirmation
deletePrompt(promptId) ==
  /\ PageClickable
  /\ promptId \in VisibleIds
  /\ findIndex(prompts, promptId) # 0
  /\ pendingConfirmAction' = [NoAction EXCEPT !.kind = "deletePrompt", !.id = promptId]
  /\ modals' = modals \cup {"confirmModal"}
  /\ lastOp' = Op("deletePrompt")
  /\ UNCHANGED <<vaultVars, searchVars, formVars, prompts, favorites, undoStack, redoStack, editingPromptId,
                 currentCategory, catItems, catOptions, clock>>

\* a toggle that only ever adds
toggleFavoriteFn_AlwaysAdd(favs, promptId) == Append(favs, promptId)

\* toggleFavorite(promptId): the favorite button of a rendered card
toggleFavoriteFn(favs, promptId) ==
  LET index == indexOf(favs, promptId)
  IN IF index = 0 THEN Append(favs, promptId) ELSE splice1(favs, index)

toggleFavorite(promptId) ==
  /\ PageClickable
  /\ promptId \in VisibleIds
  /\ favorites' = toggleFavoriteFn(favorites, promptId)
  /\ lastOp' = [Op("toggleFavorite") EXCEPT !.id = promptId]
  /\ UNCHANGED <<vaultVars, searchVars, formVars, prompts, undoStack, redoStack, editingPromptId, pendingConfirmAction,
                 modals, currentCategory, catItems, catOptions, clock>>

\* an undo that also drops the favorites whose record it took away
undo_PruneFavorites ==
  LET r == undoFn(prompts, undoStack, redoStack)
  IN /\ prompts' = r.prompts
     /\ undoStack' = r.undoStack
     /\ redoStack' = r.redoStack
     /\ favorites' = SelectSeq(favorites, LAMBDA id : id \in IdsOf(r.prompts))
     /\ lastOp' = Op(IF Len(undoStack) > 0 THEN "undo" ELSE "undo:empty")
     /\ UNCHANGED <<vaultVars, searchVars, formVars, editingPromptId, pendingConfirmAction, modals,
                    currentCategory, catItems, catOptions, clock>>

\* undo(): Ctrl+Z; with nothing to undo the call does nothing
undo ==
  LET r == undoFn(prompts, undoStack, redoStack)
  IN /\ prompts' = r.prompts
     /\ undoStack' = r.undoStack
     /\ redoStack' = r.redoStack
     /\ lastOp' = Op(IF Len(undoStack) > 0 THEN "undo" ELSE "undo:empty")
     /\ UNCHANGED <<vaultVars, searchVars, formVars, favorites, editingPromptId, pendingConfirmAction, modals,
                    currentCategory, catItems, catOptions, clock>>

\* redo(): Ctrl+Y; with nothing to redo the call does nothing
redo ==
  LET r == redoFn(prompts, undoStack, redoStack)
  IN /\ prompts' = r.prompts
     /\ undoStack' = r.undoStack
     /\ redoStack' = r.redoStack
     /\ lastOp' = Op(IF Len(redoStack) > 0 THEN "redo" ELSE "redo:empty")
     /\ UNCHANGED <<vaultVars, searchVars, formVars, favorites, editingPromptId, pendingConfirmAction, modals,
                    currentCategory, catItems, catOptions, clock>>

(***************************************************************************)
(* Category operations                                                     *)
(***************************************************************************)
\* activateCategoryItem(li): a click on the name of the li at index li
activateCategoryItem(li) ==
  /\ PageClickable
  /\ li \in DOMAIN catItems
  /\ currentCategory' = catItems[li].key
  /\ lastOp' = Op("activateCategoryItem")
  /\ UNCHANGED <<vaultVars, searchVars, formVars, prompts, favorites, undoStack, redoStack, editingPromptId,
                 pendingConfirmAction, modals, catItems, catOptions, clock>>

\* the new key the edit handler computes from the typed name
renameKey(newDisplay) == toLowerCase(trim(newDisplay))

\* the edit handler of the li at index li, newDisplay the answer to prompt()
editCategory(li, newDisplay) ==
  /\ PageClickable
  /\ li \in DOMAIN catItems
  /\ LET oldKey == catItems[li].key
         newKey == renameKey(newDisplay)
         r == updateDescendantKeys(catItems, catOptions, prompts, oldKey, newKey,
                                   trim(newDisplay))
     IN /\ ~(newDisplay = <<>> \/ newKey = oldKey \/ exists(catItems, newKey))
        /\ catItems' = r.items
        /\ catOptions' = r.opts
        /\ prompts' = r.prompts
        /\ lastOp' = [Op("editCategory") EXCEPT !.key = oldKey, !.li = li, !.name = newDisplay]
  /\ UNCHANGED <<vaultVars, searchVars, formVars, favorites, undoStack, redoStack, editingPromptId,
                 pendingConfirmAction, modals, currentCategory, clock>>

\* the add-subcategory handler of the li at index li
addSubcategory(li, subName) ==
  /\ PageClickable
  /\ li \in DOMAIN catItems
  /\ LET parentKey == catItems[li].key
         subKey == toLowerCase(trim(subName))
         combinedKey == parentKey \o Slash \o subKey
         last == SubtreeEnd(catItems, li)
         childLi == makeCategoryItem(CatItem(combinedKey, trim(subName), catItems[li].depth + 1))
     IN /\ ~(subName = <<>> \/ exists(catItems, combinedKey))
        /\ catItems' = SubSeq(catItems, 1, last) \o <<childLi>>
                         \o SubSeq(catItems, last + 1, Len(catItems))
        /\ catOptions' = insertOption(catOptions, combinedKey)
        /\ lastOp' = Op("addSubcategory")
  /\ UNCHANGED <<vaultVars, searchVars, formVars, prompts, favorites, undoStack, redoStack, editingPromptId,
                 pendingConfirmAction, modals, currentCategory, clock>>

\* the click handler of addCategoryBtn, input the value of #newCategory;
\* insertBefore throws, before anything is changed, when the first element
\* keyed 'other' is not a child of the list itself, and appends when there is none
addCategory(input) ==
  /\ PageClickable
  /\ LET newCategory == trim(input)
         key == toLowerCase(newCategory)
         otherItem == querySelectorLi(catItems, KeyOther)
         li == makeCategoryItem(CatItem(key, newCategory, 0))
     IN /\ ~(newCategory = <<>> \/ exists(catItems, key))
        /\ ~(otherItem # 0 /\ catItems[otherItem].depth # 0)
        /\ catItems' = IF otherItem = 0 THEN Append(catItems, li)
                       ELSE SubSeq(catItems, 1, otherItem - 1) \o <<li>>
                              \o SubSeq(catItems, otherItem, Len(catItems))
        /\ catOptions' = insertOption(catOptions, key)
        /\ lastOp' = Op("addCategory")
  /\ UNCHANGED <<vaultVars, searchVars, formVars, prompts, favorites, undoStack, redoStack, editingPromptId,
                 pendingConfirmAction, modals, currentCategory, clock>>

\* the delete handler of the li at index li: its button is shown only when
\* the key was not protected when the li was enhanced
deleteCategory(li) ==
  /\ PageClickable
  /\ li \in DOMAIN catItems
  /\ ~catItems[li].hidden
  /\ pendingConfirmAction' =
       [NoAction EXCEPT !.kind = "deleteCategory", !.key = catItems[li].key, !.li = li]
  /\ modals' = modals \cup {"confirmModal"}
  /\ lastOp' = Op("deleteCategory")
  /\ UNCHANGED <<vaultVars, searchVars, formVars, prompts, favorites, undoStack, redoStack, editingPromptId,
                 currentCategory, catItems, catOptions, clock>>

(***************************************************************************)
(* Import, confirmation, modals, time                                      *)
(***************************************************************************)
\* handleFileImport with a file whose prompts member is the array data
(***************************************************************************)
(* The handlers of the page that README.md lists: the selection of cards,  *)
(* the bulk delete and the import that merges.                             *)
(***************************************************************************)
\* togglePromptSelection(promptId): the checkbox of a rendered card
togglePromptSelection(promptId) ==
  /\ PageClickable
  /\ promptId \in IdsOf(prompts)
  /\ selectedPrompts' = IF promptId \in selectedPrompts
                        THEN selectedPrompts \ {promptId}
                        ELSE selectedPrompts \cup {promptId}
  /\ lastOp' = [Op("togglePromptSelection") EXCEPT !.id = promptId]
  /\ UNCHANGED <<exportedFile, searchVars, formVars, prompts, favorites, undoStack, redoStack,
                 editingPromptId, pendingConfirmAction, modals, currentCategory, catItems,
                 catOptions, clock>>

\* deleteSelectedPrompts(): the bulk delete button asks for confirmation
deleteSelectedPrompts ==
  /\ PageClickable
  /\ selectedPrompts # {}
  /\ pendingConfirmAction' = [NoAction EXCEPT !.kind = "deleteSelected"]
  /\ modals' = modals \cup {"confirmModal"}
  /\ lastOp' = Op("deleteSelectedPrompts")
  /\ UNCHANGED <<vaultVars, searchVars, formVars, prompts, favorites, undoStack, redoStack,
                 editingPromptId, currentCategory, catItems, catOptions, clock>>

\* the confirmed callback of deleteSelectedPrompts(): the two filters, then
\* the selection is cleared, then the toast reads its size
deleteSelectedConfirmed(ps, favs, sel) ==
  LET cleared == {}
  IN [prompts |-> SelectSeq(ps, LAMBDA q : q.id \notin sel),
      favorites |-> SelectSeq(favs, LAMBDA id : id \notin sel),
      selectedPrompts |-> cleared,
      toast |-> "Deleted " \o ToString(Cardinality(cleared)) \o " prompt(s)"]

\* a merge in which the imported record wins over the one that has its id
RECURSIVE importMerge_Overwrite(_, _)
importMerge_Overwrite(ps, raw) ==
  IF raw = <<>> THEN ps
  ELSE importMerge_Overwrite(
         IF \E i \in DOMAIN ps : ps[i].id = Head(raw).id
         THEN [i \in DOMAIN ps |-> IF ps[i].id = Head(raw).id THEN Head(raw) ELSE ps[i]]
         ELSE Append(ps, Head(raw)),
         Tail(raw))

\* the forEach of the merging import: a record is pushed when no record of
\* the collection, as it is by then, has its id
RECURSIVE importMerge(_, _)
importMerge(ps, raw) ==
  IF raw = <<>> THEN ps
  ELSE importMerge(IF \E i \in DOMAIN ps : ps[i].id = Head(raw).id
                   THEN ps ELSE Append(ps, Head(raw)),
                   Tail(raw))

(***************************************************************************)
(* Share links.  The tokens are the values of the shared parameter the     *)
(* page is opened with; atob and JSON.parse are given by what they answer  *)
(* for these tokens.                                                       *)
(***************************************************************************)
TokenNotBase64 == "%%%"
TokenNotJson == "bm90IGpzb24="
TokenNull == "bnVsbA=="
TokenNumber == "NQ=="
TokenRecord == "eyJ0aXRsZSI6IlNoYXJlZCIsImNhdGVnb3J5IjoiYXJ0IiwidGFncyI6WyJ0YWciXSwidGV4dCI6IlNoYXJlZCB0ZXh0Iiwibm90ZXMiOiIiLCJyYXRpbmciOjl9"

ShareTokens == {TokenNotBase64, TokenNotJson, TokenNull, TokenNumber, TokenRecord}

\* atob(sharedData): the decoded text, or the exception for a string that is
\* not base64
atob(token) ==
  CASE token = TokenNotJson -> [threw |-> FALSE, text |-> "not json"]
    [] token = TokenNull -> [threw |-> FALSE, text |-> "null"]
    [] token = TokenNumber -> [threw |-> FALSE, text |-> "5"]
    [] token = TokenRecord ->
         [threw |-> FALSE,
          text |-> "{\"title\":\"Shared\",\"category\":\"art\",\"tags\":[\"tag\"],\"text\":\"Shared text\",\"notes\":\"\",\"rating\":9}"]
    [] OTHER -> [threw |-> TRUE, text |-> ""]

\* JSON.parse(text): the kind of the value and its rating member (0 when
\* the value has none), or the exception for a text that is not JSON
JSONparseValue(text) ==
  CASE text = "null" -> [threw |-> FALSE, kind |-> "null", rating |-> 0]
    [] text = "5" -> [threw |-> FALSE, kind |-> "number", rating |-> 0]
    [] text = "{\"title\":\"Shared\",\"category\":\"art\",\"tags\":[\"tag\"],\"text\":\"Shared text\",\"notes\":\"\",\"rating\":9}" ->
         [threw |-> FALSE, kind |-> "object", rating |-> 9]
    [] OTHER -> [threw |-> TRUE, kind |-> "none", rating |-> 0]

\* whether the try block of checkSharedPrompt throws: atob, JSON.parse, or
\* the read of promptData.title when promptData is null
sharedThrows(token) ==
  \/ atob(token).threw
  \/ JSONparseValue(atob(token).text).threw
  \/ JSONparseValue(atob(token).text).kind = "null"

ShareError == "Error loading shared prompt"
ShareLoaded == "Shared prompt loaded! Edit and save to add it to your library."

\* checkSharedPrompt() when the page is opened with ?shared=token: the form
\* is filled from the decoded value and the prompt modal shown, or the error
\* of the catch reported
checkSharedPrompt(token) ==
  /\ lastOp.op = "init"
  /\ IF sharedThrows(token)
     THEN /\ lastOp' = [Op("checkSharedPrompt:error") EXCEPT !.text = token, !.toast = ShareError]
          /\ UNCHANGED <<promptRating, modals>>
     ELSE /\ promptRating' = IF JSONparseValue(atob(token).text).rating # 0
                             THEN JSONparseValue(atob(token).text).rating
                             ELSE promptRating
          /\ modals' = modals \cup {"promptModal"}
          /\ lastOp' = [Op("checkSharedPrompt") EXCEPT !.text = token, !.toast = ShareLoaded]
  /\ UNCHANGED <<vaultVars, searchVars, imageCache, boxes, prompts, favorites, undoStack, redoStack,
                 editingPromptId, pendingConfirmAction, currentCategory, catItems, catOptions,
                 clock>>

\* the document exportData() writes: the collection as JSON.stringify and
\* JSON.parse give it back, a member that is undefined being left out and
\* read as undefined again
exportDocument(ps) == ImportFile(JSONparse(JSONstringify(ps)))

\* exportData(): the export button; an empty collection is not exported
exportData ==
  /\ PageClickable
  /\ IF Len(prompts) = 0
     THEN /\ lastOp' = [Op("exportData:empty") EXCEPT !.toast = "No prompts to export"]
          /\ UNCHANGED exportedFile
     ELSE /\ exportedFile' = exportDocument(prompts)
          /\ lastOp' = [Op("exportData") EXCEPT !.toast = "Data exported successfully!"]
  /\ UNCHANGED <<selectedPrompts, searchVars, formVars, prompts, favorites, undoStack, redoStack,
                 editingPromptId, pendingConfirmAction, modals, currentCategory, catItems,
                 catOptions, clock>>

\* the validation of the reader's onload: JSON.parse does not throw and
\* importedData.prompts is an array
validImport(file) == file.json /\ file.promptsIs = "array"

ImportError == "Error importing file. Please check the file format."

\* handleFileImport(event) with a .json file chosen, and the onload of its
\* reader: asks for confirmation, or reports the error of the catch
handleFileImportAs(kind, file) ==
  /\ PageClickable
  /\ IF validImport(file)
     THEN /\ pendingConfirmAction' = [NoAction EXCEPT !.kind = kind, !.data = file.prompts]
          /\ modals' = modals \cup {"confirmModal"}
          /\ lastOp' = [Op("handleFileImport") EXCEPT !.file = file]
     ELSE /\ lastOp' = [Op("handleFileImport:error") EXCEPT !.toast = ImportError, !.file = file]
          /\ UNCHANGED <<pendingConfirmAction, modals>>
  /\ UNCHANGED <<vaultVars, searchVars, formVars, prompts, favorites, undoStack, redoStack, editingPromptId,
                 currentCategory, catItems, catOptions, clock>>

\* the import of script.js, whose callback replaces the collection
handleFileImport(file) == handleFileImportAs("import", file)

\* the import README.md lists, whose callback merges
handleFileImportMerge(file) == handleFileImportAs("importMerge", file)

\* the click handler of confirmOk: runs the pending callback, closes the modals
confirmOk ==
  /\ "confirmModal" \in modals
  /\ LET a == pendingConfirmAction
         d == deletePromptConfirmed(prompts, favorites, a.id)
         c == deleteCategoryAndDescendants(catItems, catOptions, prompts, a.key, a.li)
         b == deleteSelectedConfirmed(prompts, favorites, selectedPrompts)
     IN /\ prompts' = CASE a.kind = "deletePrompt" -> d.prompts
                        [] a.kind = "import" -> importMap(a.data, UsedIds, clock)
                        [] a.kind = "importMerge" -> importMerge(prompts, a.data)
                        [] a.kind = "deleteSelected" -> b.prompts
                        [] a.kind = "deleteCategory" -> c.prompts
                        [] OTHER -> prompts
        /\ favorites' = CASE a.kind = "deletePrompt" -> d.favorites
                          [] a.kind = "deleteSelected" -> b.favorites
                          [] OTHER -> favorites
        /\ selectedPrompts' = IF a.kind = "deleteSelected" THEN b.selectedPrompts
                               ELSE selectedPrompts
        /\ catItems' = IF a.kind = "deleteCategory" THEN c.items ELSE catItems
        /\ catOptions' = IF a.kind = "deleteCategory" THEN c.opts ELSE catOptions
        /\ searchCache' = IF a.kind = "deletePrompt" /\ findIndex(prompts, a.id) # 0
                           THEN EmptyCache ELSE searchCache
        /\ lastOp' = [Op("confirmOk:" \o a.kind) EXCEPT !.key = a.key, !.li = a.li, !.id = a.id,
                          !.toast = IF a.kind = "deleteSelected" THEN b.toast ELSE ""]
  /\ pendingConfirmAction' = NoAction
  /\ modals' = closeAllModalsFn(modals)
  /\ imageCache' = resetForm(imageCache, boxes).imageCache
  /\ boxes' = resetForm(imageCache, boxes).boxes
  /\ promptRating' = 0
  /\ UNCHANGED <<exportedFile, searchTimeoutId, timers, suggestions, undoStack, redoStack, editingPromptId,
                 currentCategory, clock>>

\* closeAllModals(): Escape, the close buttons, the cancel button, a click
\* on the backdrop
closeAllModals ==
  /\ modals # {}
  /\ modals' = closeAllModalsFn(modals)
  /\ lastOp' = Op("closeAllModals")
  /\ imageCache' = resetForm(imageCache, boxes).imageCache
  /\ boxes' = resetForm(imageCache, boxes).boxes
  /\ promptRating' = 0
  /\ UNCHANGED <<vaultVars, searchVars, prompts, favorites, undoStack, redoStack, editingPromptId,
                 pendingConfirmAction, currentCategory, catItems, catOptions, clock>>

\* time passes between two readings of new Date()
Tick ==
  /\ clock < MaxClock
  /\ clock' = clock + 1
  /\ lastOp' = Op("tick")
  /\ UNCHANGED <<vaultVars, searchVars, formVars, prompts, favorites, undoStack, redoStack, editingPromptId,
                 pendingConfirmAction, modals, currentCategory, catItems, catOptions>>

(***************************************************************************)
(* The debounced search.  A pending timer is [id, term, elapsed]: the id    *)
(* setTimeout returned, the search term its callback closes over, and the  *)
(* milliseconds since it was set (counted up to the delay).                *)
(***************************************************************************)
\* what is typed into #searchInput
SearchInputs == {" Py", "art"}

\* an input handler that leaves the pending timer alone
clearTimeout_Noop(ts, id) == ts

\* clearTimeout(id)
clearTimeout(ts, id) == {t \in ts : t.id # id}

\* the filteredPrompts of loadPrompts, in the order of the collection
filteredPrompts(ps, favs, category) ==
  IF category = KeyFavorites
  THEN SelectSeq(ps, LAMBDA q : indexOf(favs, q.id) # 0)
  ELSE IF category # KeyAll
       THEN SelectSeq(ps, LAMBDA q : q.category = category)
       ELSE ps

\* createPromptCard(prompt): the elements of the card the search reads.
\* The markup holds .prompt-title-text and .tag elements and no element of
\* class prompt-text, so querySelector('.prompt-text') answers null.
createPromptCard(q) ==
  [id |-> q.id, titleText |-> q.title, promptText |-> Null, tags |-> q.tags]

\* the .prompt-card elements on the page
promptCards == 
  LET fp == filteredPrompts(prompts, favorites, currentCategory)
  IN [i \in DOMAIN fp |-> createPromptCard(fp[i])]

\* the uncached branch of the timer callback: the ids of the matching cards,
\* or a TypeError at the first card whose lookup answers null
RECURSIVE searchCards(_, _)
searchCards(cards, searchTerm) ==
  IF cards = <<>> THEN [threw |-> FALSE, results |-> <<>>]
  ELSE LET card == Head(cards)
           rest == searchCards(Tail(cards), searchTerm)
           matches ==
             \/ includes(strToLowerCase(card.titleText), searchTerm)
             \/ includes(strToLowerCase(card.promptText), searchTerm)
             \/ \E k \in DOMAIN card.tags : includes(strToLowerCase(card.tags[k]), searchTerm)
       IN IF card.promptText = Null THEN [threw |-> TRUE, results |-> <<>>]
          ELSE IF rest.threw THEN rest
          ELSE [threw |-> FALSE,
                results |-> (IF matches THEN <<card.id>> ELSE <<>>) \o rest.results]

\* the timer callback: the search cache after it
timerCallback(cache, cards, searchTerm) ==
  LET r == searchCards(cards, searchTerm)
  IN IF searchTerm \in DOMAIN cache \/ r.threw THEN cache
     ELSE [t \in DOMAIN cache \cup {searchTerm} |->
             IF t = searchTerm THEN r.results ELSE cache[t]]

(***************************************************************************)
(* The suggestion list of the search box                                   *)
(***************************************************************************)
\* suggestions.add(x): a Set keeps the order of the first insertion
setAdd(items, x) == IF x \in Range(items) THEN items ELSE Append(items, x)

\* Array.from(suggestions).slice(0, n)
sliceFirst(items, n) == IF Len(items) > n THEN SubSeq(items, 1, n) ELSE items

\* the forEach over the tags of a record, from tag k on
RECURSIVE addTagSuggestions(_, _, _, _)
addTagSuggestions(items, tags, k, term) ==
  IF Len(items) >= 0 /\ k > Len(tags) THEN items
  ELSE addTagSuggestions(
         IF includes(strToLowerCase(tags[k]), term) THEN setAdd(items, "Tag: " \o tags[k])
         ELSE items,
         tags, k + 1, term)

\* the forEach over the prompts of generateSearchSuggestions, from record i on
RECURSIVE addPromptSuggestions(_, _, _, _)
addPromptSuggestions(items, ps, i, term) ==
  IF Len(items) >= 0 /\ i > Len(ps) THEN items
  ELSE LET withTitle == IF includes(strToLowerCase(ps[i].title), term)
                        THEN setAdd(items, ps[i].title) ELSE items
       IN addPromptSuggestions(addTagSuggestions(withTitle, ps[i].tags, 1, term),
                               ps, i + 1, term)

\* the number of suggestions generateSearchSuggestions shows
SuggestionLimit == 5

\* a list that shows every suggestion found
generateSearchSuggestions_NoLimit(ps, searchTerm, shown) ==
  LET found == addPromptSuggestions(<<>>, ps, 1, strToLowerCase(searchTerm))
  IN IF Len(searchTerm) < 2 THEN [shown EXCEPT !.active = FALSE]
     ELSE IF Len(found) > 0 THEN [active |-> TRUE, items |-> found]
     ELSE [shown EXCEPT !.active = FALSE]

\* generateSearchSuggestions(searchTerm): the #searchSuggestions element
\* after it; shown is the element before. A term of fewer than two
\* characters and a search that finds nothing hide the list
generateSearchSuggestions(ps, searchTerm, shown) ==
  LET found == addPromptSuggestions(<<>>, ps, 1, strToLowerCase(searchTerm))
  IN IF Len(searchTerm) < 2 THEN [shown EXCEPT !.active = FALSE]
     ELSE IF Len(found) > 0
          THEN [active |-> TRUE, items |-> sliceFirst(found, SuggestionLimit)]
     ELSE [shown EXCEPT !.active = FALSE]

\* prompt.content.split(/[.!?]+/)
splitSentences(content) == splitRuns(content, {".", "!", "?"})

\* the characters a suggested fragment keeps of its sentence
FragmentLength == 50

\* the fragment updateSearchSuggestions adds for a content that holds the
\* query: the start of the first sentence that holds it, or nothing when no
\* sentence does
contentFragment(content, query) ==
  LET \* sentence.trim().substring(0, 50) + '...'
      cut(trimmed) ==
        (IF Len(trimmed) > FragmentLength THEN SubSeq(trimmed, 1, FragmentLength)
         ELSE trimmed) \o "..."
      \* sentences.find(s => s.toLowerCase().includes(query))
      find(sentences) ==
        LET hits == {k \in DOMAIN sentences :
                       includes(strToLowerCase(sentences[k]), query)}
        IN IF hits = {} THEN <<>>
           ELSE <<cut(trimWhiteSpace(sentences[CHOOSE k \in hits : \A j \in hits : k <= j]))>>
  IN find(splitSentences(content))

\* the forEach over state.prompts of updateSearchSuggestions, from record i on
RECURSIVE addViewSuggestions(_, _, _, _)
addViewSuggestions(items, ps, i, query) ==
  IF Len(items) >= 0 /\ i > Len(ps) THEN items
  ELSE LET withTitle == IF includes(strToLowerCase(ps[i].title), query)
                        THEN setAdd(items, ps[i].title) ELSE items
           withContent(withTags, fragment) ==
             IF fragment # <<>> THEN setAdd(withTags, fragment[1]) ELSE withTags
       IN addViewSuggestions(
            withContent(addTagSuggestions(withTitle, ps[i].tags, 1, query),
                        IF includes(strToLowerCase(ps[i].content), query)
                        THEN contentFragment(ps[i].content, query) ELSE <<>>),
            ps, i + 1, query)

\* the forEach over state.categories of updateSearchSuggestions
RECURSIVE addCategorySuggestions(_, _, _, _)
addCategorySuggestions(items, categories, k, query) ==
  IF Len(items) >= 0 /\ k > Len(categories) THEN items
  ELSE addCategorySuggestions(
         IF includes(strToLowerCase(categories[k].name), query)
         THEN setAdd(items, "Category: " \o categories[k].name) ELSE items,
         categories, k + 1, query)

\* the number of suggestions updateSearchSuggestions shows
ViewSuggestionLimit == 8

\* updateSearchSuggestions(): the suggestion element after it
updateSearchSuggestions(st, shown) ==
  LET query == strToLowerCase(st.searchQuery)
      show(found) ==
        IF Len(found) > 0
        THEN [active |-> TRUE, items |-> sliceFirst(found, ViewSuggestionLimit)]
        ELSE [shown EXCEPT !.active = FALSE]
  IN IF Len(query) < 2 THEN [shown EXCEPT !.active = FALSE]
     ELSE show(addCategorySuggestions(addViewSuggestions(<<>>, st.prompts, 1, query),
                                      st.categories, 1, query))

\* the input handler of #searchInput
searchInput(value) ==
  /\ LET searchTerm == strTrim(strToLowerCase(value))
         cleared == IF searchTimeoutId # 0 THEN clearTimeout(timers, searchTimeoutId)
                    ELSE timers
     IN /\ timers' = cleared \cup {[id |-> searchTimeoutId + 1, term |-> searchTerm,
                                     elapsed |-> 0]}
        /\ searchTimeoutId' = searchTimeoutId + 1
        /\ lastOp' = [Op("searchInput") EXCEPT !.id = searchTimeoutId + 1,
                        !.text = searchTerm,
                        !.cancelled = {t.id : t \in timers \ cleared}]
  /\ UNCHANGED <<vaultVars, searchCache, suggestions, formVars, prompts, favorites, undoStack, redoStack,
                 editingPromptId, pendingConfirmAction, modals, currentCategory,
                 catItems, catOptions, clock>>

\* time passes for the pending timers
Elapse ==
  /\ \E t \in timers : t.elapsed < SearchDelay
  /\ timers' = {[t EXCEPT !.elapsed = IF t.elapsed + TickMs >= SearchDelay
                                       THEN SearchDelay ELSE t.elapsed + TickMs] :
                  t \in timers}
  /\ lastOp' = Op("elapse")
  /\ UNCHANGED <<vaultVars, searchCache, searchTimeoutId, suggestions, formVars, prompts, favorites, undoStack,
                 redoStack, editingPromptId, pendingConfirmAction, modals,
                 currentCategory, catItems, catOptions, clock>>

\* a timer whose delay has passed fires: its callback runs
searchTimer(t) ==
  /\ t \in timers
  /\ t.elapsed >= SearchDelay
  /\ timers' = timers \ {t}
  /\ suggestions' = generateSearchSuggestions(prompts, t.term, suggestions)
  /\ searchCache' = timerCallback(searchCache, promptCards, t.term)
  /\ lastOp' = [Op("searchTimer") EXCEPT !.id = t.id, !.text = t.term]
  /\ UNCHANGED <<vaultVars, searchTimeoutId, formVars, prompts, favorites, undoStack, redoStack,
                 editingPromptId, pendingConfirmAction, modals, currentCategory,
                 catItems, catOptions, clock>>

\* the values the select of the form can hold: an option, or nothing
FormCategories == Range(catOptions) \cup {<<>>}

\* every run of at most MaxSteps handlers of the record store from the
\* state after construction; a handler that returns early changes nothing
Next ==
  /\ steps < MaxSteps
  /\ steps' = steps + 1
  /\ UNCHANGED <<simVars, viewVars, statVars>>
  /\ \/ addNewPrompt
     \/ \E id \in IdsOf(prompts) : editPrompt(id)
     \/ \E title \in FormTitles, category \in FormCategories, text \in FormTexts,
           rating \in FormRatings :
          savePrompt(title, category, <<"tag">>, text, "", rating)
     \/ \E id \in IdsOf(prompts) : deletePrompt(id)
     \/ \E id \in IdsOf(prompts) : toggleFavorite(id)
     \/ undo
     \/ redo
     \/ \E li \in DOMAIN catItems : activateCategoryItem(li)
     \/ \E data \in ImportPayloads : handleFileImport(ImportFile(data))
     \/ confirmOk
     \/ closeAllModals
     \/ Tick

Spec == Init /\ [][Next]_vars

(***************************************************************************)
(* The category list with the record operations that assign categories:    *)
(* every run of at most MaxCatSteps handlers, the list holding at most     *)
(* MaxCats items.                                                          *)
(***************************************************************************)
NextCat ==
  /\ steps < MaxCatSteps
  /\ steps' = steps + 1
  /\ UNCHANGED <<simVars, viewVars, statVars>>
  /\ \/ addNewPrompt
     \/ \E category \in FormCategories :
          savePrompt("Edited title", category, <<"tag">>, "Edited text", "", 4)
     \/ undo
     \/ redo
     \/ \E li \in DOMAIN catItems, name \in CatNames : editCategory(li, name)
     \/ \E li \in DOMAIN catItems, name \in CatNames :
          /\ Len(catItems) < MaxCats
          /\ addSubcategory(li, name)
     \/ \E name \in CatNames :
          /\ Len(catItems) < MaxCats
          /\ addCategory(name)
     \/ \E li \in DOMAIN catItems : deleteCategory(li)
     \/ confirmOk
     \/ closeAllModals

SpecCat == Init /\ [][NextCat]_vars

(***************************************************************************)
(* The history subsystem on its own, to any depth: records are created     *)
(* with one fixed form content until the collection holds MaxHistPrompts   *)
(* records, and undone and redone in any order.                            *)
(***************************************************************************)
NextHist ==
  /\ UNCHANGED <<steps, simVars, viewVars, statVars>>
  /\ \/ addNewPrompt
     \/ /\ editingPromptId = 0 => Len(prompts) < MaxHistPrompts
        /\ savePrompt("Edited title", KeyOther, <<"tag">>, "Edited text", "", 4)
     \/ undo
     \/ redo
     \/ closeAllModals

SpecHist == Init /\ [][NextHist]_vars

(***************************************************************************)
(* The search box with the handlers that change what it searches: every    *)
(* run of at most MaxSearchSteps steps.                                    *)
(***************************************************************************)
NextSearch ==
  /\ steps < MaxSearchSteps
  /\ steps' = steps + 1
  /\ UNCHANGED <<simVars, viewVars, statVars>>
  /\ \/ \E value \in SearchInputs : searchInput(value)
     \/ Elapse
     \/ \E t \in timers : searchTimer(t)
     \/ \E li \in DOMAIN catItems : activateCategoryItem(li)
     \/ addNewPrompt
     \/ \E title \in FormTitles, text \in FormTexts :
          savePrompt(title, KeyArt, <<"tag">>, text, "", 4)
     \/ undo
     \/ redo
     \/ \E data \in ImportPayloads : handleFileImport(ImportFile(data))
     \/ confirmOk
     \/ closeAllModals

SpecSearch == Init /\ [][NextSearch]_vars

(***************************************************************************)
(* The prompt form with its image boxes, the favorites and the history:    *)
(* every run of at most MaxEditSteps handlers.                             *)
(***************************************************************************)
UploadBoxes == {"result-0", InputBox}

NextEdit ==
  /\ steps < MaxEditSteps
  /\ steps' = steps + 1
  /\ UNCHANGED <<simVars, viewVars, statVars>>
  /\ \/ addNewPrompt
     \/ \E id \in IdsOf(prompts) : editPrompt(id)
     \/ \E b \in UploadBoxes, imageData \in Images : handleImageUpload(b, imageData)
     \/ savePrompt("Edited title", KeyArt, <<"tag">>, "Edited text", "", 4)
     \/ \E id \in IdsOf(prompts) : toggleFavorite(id)
     \/ undo
     \/ redo
     \/ \E li \in DOMAIN catItems : activateCategoryItem(li)
     \/ \E name \in CatNames : addCategory(name)
     \/ closeAllModals

SpecEdit == Init /\ [][NextEdit]_vars

(***************************************************************************)
(* Export, the two imports, the selection and the bulk delete, with the    *)
(* handlers that create records and favorites: every run of at most        *)
(* MaxVaultSteps handlers.                                                 *)
(***************************************************************************)
\* the files the user can choose: documents of records, documents that are
\* no export of the page, and the file the page gave for download
ImportFiles ==
  {ImportFile(data) : data \in ImportPayloads} \cup MalformedFiles
    \cup (IF exportedFile = NoFile THEN {} ELSE {exportedFile})

NextVault ==
  /\ steps < MaxVaultSteps
  /\ steps' = steps + 1
  /\ UNCHANGED <<simVars, viewVars, statVars>>
  /\ \/ addNewPrompt
     \/ savePrompt("Edited title", KeyArt, <<"tag">>, "Edited text", "", 4)
     \/ \E li \in DOMAIN catItems : activateCategoryItem(li)
     \/ \E id \in IdsOf(prompts) : toggleFavorite(id)
     \/ \E id \in IdsOf(prompts) : togglePromptSelection(id)
     \/ deleteSelectedPrompts
     \/ exportData
     \/ \E file \in ImportFiles : handleFileImport(file)
     \/ \E file \in ImportFiles : handleFileImportMerge(file)
     \/ confirmOk
     \/ closeAllModals

SpecVault == Init /\ [][NextVault]_vars

(***************************************************************************)
(* The page opened with a share link, the import of a chosen file, and the *)
(* form: every run of at most MaxShareSteps handlers.                      *)
(***************************************************************************)
NextShare ==
  /\ steps < MaxShareSteps
  /\ steps' = steps + 1
  /\ UNCHANGED <<simVars, viewVars, statVars>>
  /\ \/ \E token \in ShareTokens : checkSharedPrompt(token)
     \/ addNewPrompt
     \/ \E id \in IdsOf(prompts) : editPrompt(id)
     \/ \E title \in {"Shared", ""} :
          savePrompt(title, KeyArt, <<"tag">>, "Shared text", "", promptRating)
     \/ \E li \in DOMAIN catItems : activateCategoryItem(li)
     \/ \E id \in IdsOf(prompts) : toggleFavorite(id)
     \/ \E file \in ImportFiles : handleFileImport(file)
     \/ confirmOk
     \/ undo
     \/ redo
     \/ closeAllModals

SpecShare == Init /\ [][NextShare]_vars

(***************************************************************************)
(* Duplicate detection.  A similarity is the quotient the code computes,   *)
(* kept as its numerator and denominator.                                  *)
(***************************************************************************)
\* s.charAt(k), k counting from 0
charAt(s, k) == IF k >= 0 /\ k < Len(s) THEN SubSeq(s, k + 1, k + 1) ELSE ""

Min(a, b) == IF a < b THEN a ELSE b

\* the loop over j of getEditDistance for one i: the costs array and
\* lastValue when the loop ends.  The tests of next and newValue, which
\* never fail, make each iteration compute its values before the next.
RECURSIVE editInner(_, _, _, _, _, _)
editInner(s1, s2, i, j, costs, lastValue) ==
  IF j > Len(s2) THEN [costs |-> costs, lastValue |-> lastValue]
  ELSE IF i = 0
       THEN LET next == [costs EXCEPT ![j] = j]
            IN IF next[j] >= 0 THEN editInner(s1, s2, i, j + 1, next, lastValue)
               ELSE [costs |-> next, lastValue |-> Undefined]
  ELSE IF j > 0
       THEN LET newValue == IF charAt(s1, i - 1) # charAt(s2, j - 1)
                            THEN Min(Min(costs[j - 1], lastValue), costs[j]) + 1
                            ELSE costs[j - 1]
                next == [costs EXCEPT ![j - 1] = lastValue]
            IN IF newValue >= 0 /\ next[j - 1] >= 0
               THEN editInner(s1, s2, i, j + 1, next, newValue)
               ELSE [costs |-> next, lastValue |-> Undefined]
       ELSE editInner(s1, s2, i, j + 1, costs, lastValue)

\* the loop over i of getEditDistance: what it returns
RECURSIVE editOuter(_, _, _, _)
editOuter(s1, s2, i, costs) ==
  IF i > Len(s1) THEN costs[Len(s2)]
  ELSE LET r == editInner(s1, s2, i, 0, costs, i)
           next == IF i > 0 THEN [r.costs EXCEPT ![Len(s2)] = r.lastValue] ELSE r.costs
       IN IF next[Len(s2)] >= 0 THEN editOuter(s1, s2, i + 1, next) ELSE Undefined

\* a distance that counts the positions where the strings differ
getEditDistance_Hamming(s1, s2) ==
  Cardinality({k \in 0..(Len(s1) - 1) : charAt(s1, k) # charAt(s2, k)})

\* getEditDistance(s1, s2)
getEditDistance(s1, s2) == editOuter(s1, s2, 0, [k \in 0..Len(s2) |-> Undefined])

\* a similarity that gives the arguments to getEditDistance as they come
calculateSimilarity_NoOrder(a, b) ==
  IF Len(a) = 0 THEN [num |-> 1, den |-> 1]
  ELSE [num |-> Len(a) - getEditDistance(a, b), den |-> Len(a)]

\* calculateSimilarity(str1, str2)
calculateSimilarity(a, b) ==
  LET longer == IF Len(a) > Len(b) THEN a ELSE b
      shorter == IF Len(a) > Len(b) THEN b ELSE a
  IN IF Len(longer) = 0 THEN [num |-> 1, den |-> 1]
     ELSE [num |-> Len(longer) - getEditDistance(longer, shorter), den |-> Len(longer)]

\* a threshold that takes 0.7 itself
overThreshold_AtLeast(sim) == 10 * sim.num >= 7 * sim.den

\* similarity > 0.7
overThreshold(sim) == 10 * sim.num > 7 * sim.den

\* Math.round(similarity * 100)
percent(sim) == (200 * sim.num + sim.den) \div (2 * sim.den)

\* the loop over j of findDuplicatePrompts for one i
RECURSIVE dupInner(_, _, _)
dupInner(ps, i, j) ==
  IF j > Len(ps) THEN <<>>
  ELSE LET sim == calculateSimilarity(ps[i].text, ps[j].text)
       IN (IF overThreshold(sim)
           THEN <<[prompt1 |-> ps[i], prompt2 |-> ps[j], similarity |-> percent(sim)]>>
           ELSE <<>>) \o dupInner(ps, i, j + 1)

\* the loop over i of findDuplicatePrompts
RECURSIVE dupOuter(_, _)
dupOuter(ps, i) ==
  IF i > Len(ps) THEN <<>> ELSE dupInner(ps, i, i + 1) \o dupOuter(ps, i + 1)

\* findDuplicatePrompts(): what it returns for the collection
findDuplicatePromptsFn(ps) == dupOuter(ps, 1)

\* a call of findDuplicatePrompts()
findDuplicatePrompts ==
  /\ duplicates' = findDuplicatePromptsFn(prompts)
  /\ lastOp' = Op("findDuplicatePrompts")
  /\ UNCHANGED <<str1, str2, editDistance, similarity>>
  /\ UNCHANGED <<vaultVars, searchVars, formVars, prompts, favorites, undoStack, redoStack,
                 editingPromptId, pendingConfirmAction, modals, currentCategory, catItems,
                 catOptions, clock>>

\* the texts of the records the duplicate detection is run on: two that
\* differ by one added character in 23, two with a similarity of 7 / 10
DupTexts ==
  {"Create a Python script", "Create a Python scripts", "abcdefghij", "abcdefg"}

\* the strings of at most n characters over a and b
RECURSIVE Strings(_)
Strings(n) ==
  IF n = 0 THEN {""}
  ELSE Strings(n - 1) \cup {s \o c : s \in Strings(n - 1), c \in {"a", "b"}}

\* a call of getEditDistance with the arguments of the state
callGetEditDistance ==
  /\ editDistance' = getEditDistance(str1, str2)
  /\ lastOp' = Op("getEditDistance")
  /\ UNCHANGED <<str1, str2, similarity, duplicates>>

\* a call of calculateSimilarity with the arguments of the state
callCalculateSimilarity ==
  /\ similarity' = calculateSimilarity(str1, str2)
  /\ lastOp' = Op("calculateSimilarity")
  /\ UNCHANGED <<str1, str2, editDistance, duplicates>>

\* the functions are called with any two strings of at most MaxStrLen
\* characters
InitSim ==
  /\ InitProgram
  /\ str1 \in Strings(MaxStrLen) /\ str2 \in Strings(MaxStrLen)
  /\ InitView(StoredCollection(1))
  /\ InitStat

NextSim ==
  /\ \/ callGetEditDistance
     \/ callCalculateSimilarity
  /\ UNCHANGED <<vaultVars, searchVars, formVars, prompts, favorites, undoStack, redoStack,
                 editingPromptId, pendingConfirmAction, modals, currentCategory, catItems,
                 catOptions, clock, steps, viewVars, statVars>>

SpecSim == InitSim /\ [][NextSim]_vars

(***************************************************************************)
(* The duplicate detection on collections made with the form: every run of *)
(* at most MaxDupSteps handlers.                                           *)
(***************************************************************************)
NextDup ==
  /\ steps < MaxDupSteps
  /\ steps' = steps + 1
  /\ UNCHANGED <<viewVars, statVars>>
  /\ \/ findDuplicatePrompts
     \/ UNCHANGED simVars /\
          \/ addNewPrompt
          \/ \E text \in DupTexts : savePrompt("Edited title", KeyArt, <<"tag">>, text, "", 4)
          \/ undo
          \/ redo
          \/ closeAllModals

SpecDup == Init /\ [][NextDup]_vars

(***************************************************************************)
(* The handlers of the list view of the version README.md lists            *)
(***************************************************************************)
\* what the handlers of the list view leave alone
scriptVars == <<vaultVars, searchVars, formVars, prompts, favorites, undoStack, redoStack,
                editingPromptId, pendingConfirmAction, currentCategory, catItems,
                catOptions, clock>>

\* a handler ends with renderPrompts(): st is the state object it leaves,
\* act the active category item it leaves
Render(st, act) ==
  \E r \in {renderPrompts(st, act, pagination)} :
     /\ state' = st
     /\ activeCategory' = act
     /\ pagination' = r.pagination
     /\ promptsContainer' = r.container

\* handleSearch(event)
handleSearch(value) ==
  /\ PageClickable
  /\ LET st == [state EXCEPT !.searchQuery = strToLowerCase(strTrim(value)),
                              !.currentPage = 1]
     IN /\ viewSuggestions' = updateSearchSuggestions(st, viewSuggestions)
        /\ Render(st, activeCategory)
  /\ lastOp' = [Op("handleSearch") EXCEPT !.text = value]
  /\ UNCHANGED <<scriptVars, modals>>

\* clearSearch()
clearSearch ==
  /\ PageClickable
  /\ LET st == [state EXCEPT !.searchQuery = ""]
     IN /\ viewSuggestions' = updateSearchSuggestions(st, viewSuggestions)
        /\ Render(st, activeCategory)
  /\ lastOp' = Op("clearSearch")
  /\ UNCHANGED <<scriptVars, modals>>

\* handleFilterChange(filter)
handleFilterChange(filter) ==
  /\ PageClickable
  /\ Render([state EXCEPT !.currentFilter = filter, !.currentPage = 1,
                          !.selectedPrompts = {}], activeCategory)
  /\ lastOp' = [Op("handleFilterChange") EXCEPT !.text = filter]
  /\ UNCHANGED <<scriptVars, modals, viewSuggestions>>

\* filterByCategory(categoryId): a click on the item of the category
filterByCategory(categoryId) ==
  /\ PageClickable
  /\ Render([state EXCEPT !.currentFilter = FilterCategory, !.currentPage = 1], categoryId)
  /\ lastOp' = [Op("filterByCategory") EXCEPT !.text = categoryId]
  /\ UNCHANGED <<scriptVars, modals, viewSuggestions>>

\* handleSortChange(event)
handleSortChange(sort) ==
  /\ PageClickable
  /\ Render([state EXCEPT !.currentSort = sort], activeCategory)
  /\ lastOp' = [Op("handleSortChange") EXCEPT !.text = sort]
  /\ UNCHANGED <<scriptVars, modals, viewSuggestions>>

\* the onclick of #prevPageBtn
prevPageBtn ==
  /\ PageClickable
  /\ pagination.display = "flex"
  /\ ~pagination.prevDisabled
  /\ IF state.currentPage > 1
     THEN Render([state EXCEPT !.currentPage = state.currentPage - 1], activeCategory)
     ELSE UNCHANGED <<state, activeCategory, pagination, promptsContainer>>
  /\ lastOp' = Op("prevPageBtn")
  /\ UNCHANGED <<scriptVars, modals, viewSuggestions>>

\* the onclick of #nextPageBtn: totalPages is that of the render that set it
nextPageBtn ==
  /\ PageClickable
  /\ pagination.display = "flex"
  /\ ~pagination.nextDisabled
  /\ IF state.currentPage < pagination.totalPages
     THEN Render([state EXCEPT !.currentPage = state.currentPage + 1], activeCategory)
     ELSE UNCHANGED <<state, activeCategory, pagination, promptsContainer>>
  /\ lastOp' = Op("nextPageBtn")
  /\ UNCHANGED <<scriptVars, modals, viewSuggestions>>

\* a click on the page number i of the bar
pageNumberBtn(i) ==
  /\ PageClickable
  /\ pagination.display = "flex"
  /\ i \in pagination.pageNumbers
  /\ Render([state EXCEPT !.currentPage = i], activeCategory)
  /\ lastOp' = [Op("pageNumberBtn") EXCEPT !.id = i]
  /\ UNCHANGED <<scriptVars, modals, viewSuggestions>>

\* savePrompt(event) of the form for a new record: createPrompt puts it
\* first; updateCategoryCounts() makes the category items anew, none active
createPrompt(formData) ==
  /\ PageClickable
  /\ LET newPrompt == [formData EXCEPT !.id = MaxStored + steps + 1]
     IN Render([state EXCEPT !.prompts = <<newPrompt>> \o state.prompts], Null)
  /\ lastOp' = [Op("createPrompt") EXCEPT !.id = MaxStored + steps + 1]
  /\ UNCHANGED <<scriptVars, modals, viewSuggestions>>

\* toggleFavorite(promptId): the list is rendered in the favorites view only
viewToggleFavorite(promptId) ==
  /\ PageClickable
  /\ promptId \in Range(promptsContainer)
  /\ LET index == indexOf(state.favorites, promptId)
         st == [state EXCEPT !.favorites =
                  IF index = 0 THEN Append(state.favorites, promptId)
                  ELSE SelectSeq(state.favorites, LAMBDA id : id # promptId)]
     IN IF state.currentFilter = FilterFavorites
        THEN Render(st, activeCategory)
        ELSE state' = st /\ UNCHANGED <<activeCategory, pagination, promptsContainer>>
  /\ lastOp' = [Op("toggleFavorite") EXCEPT !.id = promptId]
  /\ UNCHANGED <<scriptVars, modals, viewSuggestions>>

\* togglePromptSelection(promptId) on the state object
viewTogglePromptSelection(promptId) ==
  /\ PageClickable
  /\ promptId \in Range(promptsContainer)
  /\ Render([state EXCEPT !.selectedPrompts =
               IF promptId \in state.selectedPrompts
               THEN state.selectedPrompts \ {promptId}
               ELSE state.selectedPrompts \cup {promptId}], activeCategory)
  /\ lastOp' = [Op("togglePromptSelection") EXCEPT !.id = promptId]
  /\ UNCHANGED <<scriptVars, modals, viewSuggestions>>

\* toggleSelectAll()
toggleSelectAll ==
  /\ PageClickable
  /\ LET ids == IdsOf(getFilteredPrompts(state, activeCategory))
     IN Render([state EXCEPT !.selectedPrompts =
                  IF ids \subseteq state.selectedPrompts
                  THEN state.selectedPrompts \ ids
                  ELSE state.selectedPrompts \cup ids], activeCategory)
  /\ lastOp' = Op("toggleSelectAll")
  /\ UNCHANGED <<scriptVars, modals, viewSuggestions>>

\* deletePrompt(promptId): the delete button of a card asks for confirmation
viewDeletePrompt(promptId) ==
  /\ PageClickable
  /\ promptId \in Range(promptsContainer)
  /\ state' = [state EXCEPT !.pendingConfirmAction = [kind |-> "deletePrompt", id |-> promptId]]
  /\ modals' = modals \cup {"confirmModal"}
  /\ lastOp' = [Op("deletePrompt") EXCEPT !.id = promptId]
  /\ UNCHANGED <<scriptVars, activeCategory, pagination, promptsContainer, viewSuggestions>>

\* deleteSelectedPrompts() on the state object
viewDeleteSelectedPrompts ==
  /\ PageClickable
  /\ state.selectedPrompts # {}
  /\ state' = [state EXCEPT !.pendingConfirmAction = [kind |-> "deleteSelected", id |-> 0]]
  /\ modals' = modals \cup {"confirmModal"}
  /\ lastOp' = Op("deleteSelectedPrompts")
  /\ UNCHANGED <<scriptVars, activeCategory, pagination, promptsContainer, viewSuggestions>>

\* the click on #confirmOk: the pending callback runs, with its
\* updateCategoryCounts() and renderPrompts(), then is dropped
viewConfirmOk ==
  /\ "confirmModal" \in modals
  /\ LET action == state.pendingConfirmAction
         none == [kind |-> "none", id |-> 0]
         bulk == deleteSelectedConfirmed(state.prompts, state.favorites, state.selectedPrompts)
     IN CASE action.kind = "deletePrompt" ->
               /\ Render([state EXCEPT
                            !.prompts = SelectSeq(state.prompts, LAMBDA p : p.id # action.id),
                            !.favorites = SelectSeq(state.favorites, LAMBDA id : id # action.id),
                            !.selectedPrompts = state.selectedPrompts \ {action.id},
                            !.pendingConfirmAction = none], Null)
               /\ lastOp' = [Op("confirmOk:deletePrompt") EXCEPT !.id = action.id,
                                                               !.toast = "Prompt deleted"]
          [] action.kind = "deleteSelected" ->
               /\ Render([state EXCEPT !.prompts = bulk.prompts,
                                       !.favorites = bulk.favorites,
                                       !.selectedPrompts = bulk.selectedPrompts,
                                       !.pendingConfirmAction = none], Null)
               /\ lastOp' = [Op("confirmOk:deleteSelected") EXCEPT !.toast = bulk.toast]
          [] OTHER ->
               /\ UNCHANGED <<state, activeCategory, pagination, promptsContainer>>
               /\ lastOp' = Op("confirmOk:none")
  /\ modals' = modals \ {"confirmModal"}
  /\ UNCHANGED <<scriptVars, viewSuggestions>>

\* the click on #confirmCancel: the modal closes, the callback stays
viewConfirmCancel ==
  /\ "confirmModal" \in modals
  /\ modals' = modals \ {"confirmModal"}
  /\ lastOp' = Op("confirmCancel")
  /\ UNCHANGED <<scriptVars, viewVars>>

\* the values typed into the search box, the category items clicked and the
\* records the form makes
ViewSearchValues == {" Fan", "pandas"}
ViewCategories == {"art", "code"}
ViewFormData ==
  {[id |-> 0, title |-> "Fan Art", category |-> c, content |-> "New",
    tags |-> <<"new">>, notes |-> "", rating |-> r, complexity |-> 3,
    images |-> <<>>, createdAt |-> Today] : c \in {"art"}, r \in {0, 5}}

\* the cards whose buttons are clicked: the first and the last of the page
ClickedCards ==
  IF promptsContainer = <<>> THEN {}
  ELSE {promptsContainer[1], promptsContainer[Len(promptsContainer)]}

\* the list view opens on a stored collection of one record, of a full
\* page, or of MaxStored records
InitViewSpec ==
  /\ InitProgram
  /\ str1 = "" /\ str2 = ""
  /\ InitStat
  /\ \E n \in {1, pageSize, MaxStored} : InitView(StoredCollection(n))

NextView ==
  /\ steps < MaxViewSteps
  /\ steps' = steps + 1
  /\ UNCHANGED <<simVars, statVars>>
  /\ \/ \E value \in ViewSearchValues : handleSearch(value)
     \/ clearSearch
     \/ \E filter \in Filters : handleFilterChange(filter)
     \/ \E categoryId \in ViewCategories : filterByCategory(categoryId)
     \/ \E sort \in Sorts : handleSortChange(sort)
     \/ prevPageBtn
     \/ nextPageBtn
     \/ \E i \in pagination.pageNumbers : pageNumberBtn(i)
     \/ \E formData \in ViewFormData : createPrompt(formData)
     \/ \E promptId \in ClickedCards : viewToggleFavorite(promptId)
     \/ \E promptId \in ClickedCards : viewTogglePromptSelection(promptId)
     \/ toggleSelectAll
     \/ \E promptId \in ClickedCards : viewDeletePrompt(promptId)
     \/ viewDeleteSelectedPrompts
     \/ viewConfirmOk
     \/ viewConfirmCancel

SpecView == InitViewSpec /\ [][NextView]_vars

(***************************************************************************)
(* The list view under the handlers that leave the collection alone: the    *)
(* search, the filters, the sort and the pagination bar                     *)
(***************************************************************************)
InitPage ==
  /\ InitProgram
  /\ str1 = "" /\ str2 = ""
  /\ InitStat
  /\ \E n \in {1, pageSize, MaxPageStored} : InitView(StoredCollection(n))

NextPage ==
  /\ UNCHANGED <<steps, simVars, statVars>>
  /\ \/ \E value \in ViewSearchValues : handleSearch(value)
     \/ clearSearch
     \/ \E filter \in Filters : handleFilterChange(filter)
     \/ \E categoryId \in ViewCategories : filterByCategory(categoryId)
     \/ \E sort \in Sorts : handleSortChange(sort)
     \/ prevPageBtn
     \/ nextPageBtn
     \/ \E i \in pagination.pageNumbers : pageNumberBtn(i)

SpecPage == InitPage /\ [][NextPage]_vars

(***************************************************************************)
(* The suggestion lists of the two search boxes: the debounced search of   *)
(* script.js and handleSearch of the version README.md lists               *)
(***************************************************************************)
\* what is typed into the search boxes
SuggestValues == {"f", "Fan", " an", "art"}

\* the collections script.js finds stored: the sample data, or the one
\* record of the example
SuggestStored ==
  {SampleData,
   <<NewPrompt(1, "Fantasy Landscape", KeyArt, <<"oil">>, "A valley", "", 0, <<>>, Null, 0)>>}

\* a record of the list view, as the form makes it
ViewPrompt(id, title, content, tags) ==
  [id |-> id, title |-> title, category |-> "art", content |-> content, tags |-> tags,
   notes |-> "", rating |-> 0, complexity |-> 3, images |-> <<>>, createdAt |-> Today]

\* the collections the list view finds stored: the one record of the
\* example, or two records with tags and sentences
ViewSuggestStored ==
  {<<ViewPrompt(1, "Fantasy Landscape", "A valley", <<"oil">>)>>,
   <<ViewPrompt(1, "Fantasy Landscape Painting",
       "Paint a valley. Add a tall stone castle far away on the green hill and then a fan of light",
       <<"landscape", "fantasy", "painting", "detailed">>),
     ViewPrompt(2, "Python Data Analysis Script", "Use pandas. Plan it",
       <<"python", "data", "analysis", "pandas">>)>>}

InitSuggest ==
  /\ \E stored \in SuggestStored : InitCollection(stored)
  /\ str1 = "" /\ str2 = ""
  /\ InitStat
  /\ \E stored \in ViewSuggestStored : InitView(stored)

NextSuggest ==
  /\ steps < MaxSuggestSteps
  /\ steps' = steps + 1
  /\ UNCHANGED <<simVars, statVars>>
  /\ \/ UNCHANGED viewVars /\
          \/ \E value \in SuggestValues : searchInput(value)
          \/ Elapse
          \/ \E t \in timers : searchTimer(t)
     \/ \E value \in SuggestValues : handleSearch(value)
     \/ clearSearch

SpecSuggest == InitSuggest /\ [][NextSuggest]_vars

(***************************************************************************)
(* The statistics functions, called on texts and records                   *)
(***************************************************************************)
\* a text of n words, one space between two
RECURSIVE wordsText(_)
wordsText(n) ==
  IF n = 0 THEN "" ELSE IF n = 1 THEN "w"
  ELSE wordsText(n \div 2) \o " " \o wordsText(n - (n \div 2))

\* a note of n characters
RECURSIVE notesText(_)
notesText(n) ==
  IF n = 0 THEN "" ELSE IF n = 1 THEN "n"
  ELSE notesText(n \div 2) \o notesText(n - (n \div 2))

\* the word counts on both sides of the two thresholds of
\* calculateComplexity, and a short text
StatWordCounts == {3, 100, 101, 200, 201}

\* the note lengths on both sides of the threshold, and no note
StatNoteLengths == {0, 50, 51}

\* the texts calculateWordCount is called on
StatTexts ==
  {"", " ", " \t\n", "one", " two  words ", "a\nb\tc"} \cup {wordsText(n) : n \in StatWordCounts}

\* the tags of a record with two tags and of one with three
StatTags == {<<"a", "b">>, <<"a", "b", "c">>}

\* the records of script.js calculateComplexity is called on: with and
\* without an input image and result images
StatPrompts ==
  {NewPrompt(1, "T", KeyArt, tags, wordsText(n), notesText(k), Undefined, resultImages,
             inputImage, 0) :
     tags \in StatTags, n \in StatWordCounts, k \in StatNoteLengths,
     resultImages \in {<<>>, <<"result.png">>}, inputImage \in {Null, "input.png"}}

\* the records of the list view calculateComplexity is called on
ViewStatPrompts ==
  {[id |-> 1, title |-> "T", category |-> "art", content |-> wordsText(n), tags |-> tags,
    notes |-> notesText(k), rating |-> 0, complexity |-> Undefined, images |-> images,
    createdAt |-> Today] :
     tags \in StatTags, n \in StatWordCounts, k \in StatNoteLengths,
     images \in {<<>>, <<"input.png">>}}

\* calculateWordCount(text) of script.js is called
callCalculateWordCount ==
  /\ wordCount' = calculateWordCount(argText)
  /\ lastOp' = [Op("calculateWordCount") EXCEPT !.text = argText]
  /\ UNCHANGED <<scriptVars, modals, steps, simVars, viewVars, argPrompt, argText, complexity>>

\* calculateWordCount(text) of the list view is called
callViewCalculateWordCount ==
  /\ wordCount' = viewCalculateWordCount(argText)
  /\ lastOp' = [Op("viewCalculateWordCount") EXCEPT !.text = argText]
  /\ UNCHANGED <<scriptVars, modals, steps, simVars, viewVars, argPrompt, argText, complexity>>

\* calculateComplexity(prompt) of script.js is called on a record of script.js
callCalculateComplexity ==
  /\ argPrompt \in StatPrompts
  /\ complexity' = calculateComplexity(argPrompt)
  /\ lastOp' = Op("calculateComplexity")
  /\ UNCHANGED <<scriptVars, modals, steps, simVars, viewVars, argPrompt, argText, wordCount>>

\* calculateComplexity(prompt) of the list view is called on one of its records
callViewCalculateComplexity ==
  /\ argPrompt \in ViewStatPrompts
  /\ complexity' = viewCalculateComplexity(argPrompt)
  /\ lastOp' = Op("viewCalculateComplexity")
  /\ UNCHANGED <<scriptVars, modals, steps, simVars, viewVars, argPrompt, argText, wordCount>>

InitStatSpec ==
  /\ InitProgram
  /\ str1 = "" /\ str2 = ""
  /\ InitView(StoredCollection(1))
  /\ argText \in StatTexts
  /\ argPrompt \in StatPrompts \cup ViewStatPrompts
  /\ wordCount = 0
  /\ complexity = 0

NextStat ==
  \/ callCalculateWordCount
  \/ callViewCalculateWordCount
  \/ callCalculateComplexity
  \/ callViewCalculateComplexity

SpecStat == InitStatSpec /\ [][NextStat]_vars

(***************************************************************************)
(* Properties                                                              *)
(***************************************************************************)
SaveOps == {"savePrompt:create", "savePrompt:update"}

\* C1: after a successful create or update through savePrompt, undo() gives
\* back exactly the collection before the save, and redo() after that undo
\* gives back exactly the collection after the save
C1_UndoRedoInverse ==
  [][lastOp'.op \in SaveOps =>
       LET u == undoFn(prompts', undoStack', redoStack')
           r == redoFn(u.prompts, u.undoStack, u.redoStack)
       IN /\ u.prompts = prompts
          /\ r.prompts = prompts']_vars

\* a redo has just restored a collection that differs from the snapshot
\* below it: a save was undone and redone
C1_Witness ==
  /\ lastOp.op = "redo"
  /\ undoStack # <<>>
  /\ JSONparse(undoStack[Len(undoStack)]) # prompts

\* C2: create a record, delete it, undo once: the collection holds the
\* deleted record again, same id, same field values
C2_DeleteUndoRestores ==
  lastOp.op = "savePrompt:create" =>
    LET created == prompts[1]
        d == deletePromptConfirmed(prompts, favorites, created.id)
        u == undoFn(d.prompts, undoStack, redoStack)
    IN \E i \in DOMAIN u.prompts : u.prompts[i] = created

\* C3: a change of the collection made by anything but undo() and redo()
\* leaves redoStack empty, so redo() cannot re-apply an older state
C3_MutationClearsRedo ==
  [][(prompts' # prompts /\ lastOp'.op \notin {"undo", "redo"}) => redoStack' = <<>>]_vars

\* C4: undoStack never holds more than 20 entries; a snapshot pushed onto a
\* stack of 20 drops the oldest entry and keeps the other 19 in order below
\* the new one
C4_UndoStackBounded ==
  /\ [](Len(undoStack) <= UndoLimit)
  /\ [][(lastOp'.op \in SaveOps /\ Len(undoStack) = UndoLimit) =>
          undoStack' = Tail(undoStack) \o <<JSONstringify(prompts)>>]_vars

\* the stack is full and its oldest entry is no longer the first snapshot taken
C4_Witness ==
  /\ Len(undoStack) = UndoLimit
  /\ JSONparse(undoStack[1]) # SampleData
  /\ lastOp.op = "savePrompt:create"

\* C5: every id in favorites is the id of a record of the collection
C5_FavoritesExist == Range(favorites) \subseteq IdsOf(prompts)

\* C6: every record's category is the key of a li of the category list, or 'other'
C6_CategoriesResolve ==
  \A i \in DOMAIN prompts : prompts[i].category \in KeysOf(catItems) \cup {KeyOther}

\* C7: after the rename of category p no record's category is p or starts
\* with p + '/': records at p carry the node's new key, records under p the
\* new key and their old suffix, all other records keep their category
C7_RenameCascade ==
  [][lastOp'.op = "editCategory" =>
       LET p == lastOp'.key
           new == catItems'[lastOp'.li].key
       IN /\ Len(prompts') = Len(prompts)
          /\ \A i \in DOMAIN prompts :
               LET c == prompts[i].category
                   c2 == prompts'[i].category
               IN /\ c2 # p
                  /\ ~startsWith(c2, p \o Slash)
                  /\ c = p => c2 = new
                  /\ startsWith(c, p \o Slash) => c2 = new \o slice(c, Len(p))
                  /\ (c # p /\ ~startsWith(c, p \o Slash)) => c2 = c]_vars

\* C8: after the delete of category p neither its li nor a li nested in it
\* remains, every record of a removed li has category 'other', every other
\* record keeps its category
C8_DeleteCascade ==
  [][lastOp'.op = "confirmOk:deleteCategory" =>
       LET li == lastOp'.li
           removed == {catItems[j].key : j \in li..SubtreeEnd(catItems, li)}
       IN /\ \A j \in DOMAIN catItems' : catItems'[j].key \notin removed
          /\ Len(prompts') = Len(prompts)
          /\ \A i \in DOMAIN prompts :
               prompts'[i].category =
                 IF prompts[i].category \in removed THEN KeyOther
                 ELSE prompts[i].category]_vars

\* C9: the list always holds a li keyed 'favorites' and a li keyed 'other'
C9_ReservedKept ==
  /\ exists(catItems, KeyFavorites)
  /\ exists(catItems, KeyOther)

\* the li the li at index li is nested in, 0 for a child of the list itself
ParentLi(items, li) ==
  IF items[li].depth = 0 THEN 0
  ELSE CHOOSE j \in 1..(li - 1) :
         /\ items[j].depth = items[li].depth - 1
         /\ \A k \in (j + 1)..(li - 1) : items[k].depth >= items[li].depth

\* C10: a rename to display name N gives the node the path of its parent,
\* '/', and N trimmed and lower-cased (just that for a top-level node); the
\* node keeps its place, and each li nested in it gets the new path followed
\* by its old suffix
C10_RenamePath ==
  [][lastOp'.op = "editCategory" =>
       LET li == lastOp'.li
           oldKey == lastOp'.key
           parent == ParentLi(catItems, li)
           keyN == toLowerCase(trim(lastOp'.name))
           newPath == IF parent = 0 THEN keyN
                      ELSE catItems[parent].key \o Slash \o keyN
       IN /\ Len(catItems') = Len(catItems)
          /\ \A j \in DOMAIN catItems : catItems'[j].depth = catItems[j].depth
          /\ catItems'[li].key = newPath
          /\ \A j \in (li + 1)..SubtreeEnd(catItems, li) :
               catItems'[j].key = newPath \o slice(catItems[j].key, Len(oldKey))]_vars

\* C11: no two li of the category list carry the same key
C11_UniquePaths ==
  \A i, j \in DOMAIN catItems : i # j => catItems[i].key # catItems[j].key

\* C12: a step that changes the record collection leaves the search cache empty
C12_MutationClearsCache ==
  [][prompts' # prompts => searchCache' = EmptyCache]_vars

\* C13: every entry of the search cache is what the uncached search for its
\* term computes from the cards now on the page
C13_CacheMatchesSearch ==
  \A term \in DOMAIN searchCache :
    LET u == searchCards(promptCards, term)
    IN ~u.threw /\ u.results = searchCache[term]

\* C14: at most one search timer is pending, the one of the latest input
\* event; a timer that fires is that of the latest input event and its 300 ms
\* have passed, so an input superseded within the delay never runs; the
\* search cache gets an entry only from a firing timer, for that timer's term
C14_Debounce ==
  /\ [](Cardinality(timers) <= 1 /\ \A t \in timers : t.id = searchTimeoutId)
  /\ [][lastOp'.op = "searchTimer" =>
          \E t \in timers : /\ t.id = lastOp'.id
                            /\ t.id = searchTimeoutId
                            /\ t.term = lastOp'.text
                            /\ t.elapsed >= SearchDelay]_vars
  /\ [][searchCache' # searchCache =>
          \/ searchCache' = EmptyCache
          \/ /\ lastOp'.op = "searchTimer"
             /\ lastOp'.id = searchTimeoutId
             /\ DOMAIN searchCache' = DOMAIN searchCache \cup {lastOp'.text}
             /\ \A t \in DOMAIN searchCache : searchCache'[t] = searchCache[t]]_vars

\* an input event has just cancelled the timer of the input before it
C14_Witness ==
  /\ lastOp.op = "searchInput"
  /\ lastOp.cancelled # {}
  /\ Cardinality(timers) = 1

\* C15: a save of an update whose record is no longer in the collection
\* changes neither the collection nor undoStack nor redoStack
C15_StaleUpdateNoChange ==
  [][lastOp'.op = "savePrompt:stale" => UNCHANGED <<prompts, undoStack, redoStack>>]_vars

SaveCalls == SaveOps \cup {"savePrompt:stale", "savePrompt:rejected"}

C18_UniqueIds ==
  \A i, j \in DOMAIN prompts : i # j => prompts[i].id # prompts[j].id

\* C19: toggleFavorite(id) flips the membership of id in favorites and no
\* other, a second toggle of id gives the former set back, and the collection
\* and both stacks stay as they are
C19_ToggleFavorite ==
  [][lastOp'.op = "toggleFavorite" =>
       LET id == lastOp'.id
       IN /\ (id \in Range(favorites')) = (id \notin Range(favorites))
          /\ Range(favorites') \ {id} = Range(favorites) \ {id}
          /\ Range(toggleFavoriteFn(favorites', id)) = Range(favorites)
          /\ UNCHANGED <<prompts, undoStack, redoStack>>]_vars

\* a toggle has just removed one favorite and left another in the list
C19_Witness ==
  /\ lastOp.op = "toggleFavorite"
  /\ lastOp.id \notin Range(favorites)
  /\ favorites # <<>>

\* C16: a successful update keeps the record's id, createdAt and position,
\* changes no other record, and keeps the record's images when the form
\* was submitted with no image uploaded
C16_UpdateKeeps ==
  [][lastOp'.op = "savePrompt:update" =>
       LET i == findIndex(prompts, lastOp'.id)
       IN /\ Len(prompts') = Len(prompts)
          /\ prompts'[i].id = prompts[i].id
          /\ prompts'[i].createdAt = prompts[i].createdAt
          /\ \A j \in DOMAIN prompts : j # i => prompts'[j] = prompts[j]
          /\ (\A b \in BoxIds : imageCache[b] = UndefinedValue) =>
               /\ prompts'[i].resultImages = prompts[i].resultImages
               /\ prompts'[i].inputImage = prompts[i].inputImage]_vars

\* C20: undo() and redo() leave the favorites and the category list with
\* its select exactly as they were
C20_UndoRedoFrame ==
  [][lastOp'.op \in {"undo", "redo"} =>
       /\ favorites' = favorites
       /\ catItems' = catItems
       /\ catOptions' = catOptions]_vars

\* an undo took away a record that is a favorite, after the category list
\* had changed
C20_Witness ==
  /\ lastOp.op = "undo"
  /\ \E k \in DOMAIN favorites : findIndex(prompts, favorites[k]) = 0
  /\ catItems # InitialCatItems

\* C21: undo() with an empty undoStack and redo() with an empty redoStack
\* leave the collection and both stacks as they were
C21_EmptyHistoryNoop ==
  [][lastOp'.op \in {"undo:empty", "redo:empty"} =>
       UNCHANGED <<prompts, undoStack, redoStack>>]_vars

\* an undo with nothing to undo while there is something to redo
C21_Witness == lastOp.op = "undo:empty" /\ redoStack # <<>>

\* C22: the bulk delete removes exactly the records whose id is selected,
\* keeps the others in their order, takes the selected ids out of the
\* favorites, pushes one snapshot of the collection as it was, and reports
\* the number of records it deleted
C22_BulkDelete ==
  [][lastOp'.op = "confirmOk:deleteSelected" =>
       LET deleted == {i \in DOMAIN prompts : prompts[i].id \in selectedPrompts}
       IN /\ prompts' = SelectSeq(prompts, LAMBDA q : q.id \notin selectedPrompts)
          /\ favorites' = SelectSeq(favorites, LAMBDA id : id \notin selectedPrompts)
          /\ undoStack' = saveState(prompts, undoStack)
          /\ lastOp'.toast = "Deleted " \o ToString(Cardinality(deleted)) \o " prompt(s)"]_vars

\* two records with the same value in every field, a rating that is absent
\* counting as 0 and an input image that is absent as null
sameFields(p, q) ==
  /\ p.id = q.id /\ p.title = q.title /\ p.category = q.category
  /\ p.tags = q.tags /\ p.text = q.text /\ p.notes = q.notes
  /\ ratingOf(p) = ratingOf(q)
  /\ p.resultImages = q.resultImages
  /\ \/ p.inputImage \in {Null, UndefinedValue} /\ q.inputImage \in {Null, UndefinedValue}
     \/ p.inputImage = q.inputImage
  /\ p.createdAt = q.createdAt /\ p.updatedAt = q.updatedAt

\* C23: importing the exported document with the import that replaces gives
\* the exported collection back: the same ids in the same order, every field
\* of every record with the value it had
C23_ExportImportRoundTrip ==
  [][(/\ lastOp'.op = "confirmOk:import"
      /\ exportedFile # NoFile
      /\ pendingConfirmAction.data = exportedFile.prompts) =>
       /\ Len(prompts') = Len(exportedFile.prompts)
       /\ \A i \in DOMAIN exportedFile.prompts :
            sameFields(prompts'[i], exportedFile.prompts[i])]_vars

\* C24: the import that merges leaves every record of the collection as it
\* was and where it was, and appends an imported record exactly when no
\* record before it has its id; the import that replaces leaves the
\* imported records, in their order, and no record of the old collection
C24_ImportModes ==
  [][LET data == pendingConfirmAction.data
     IN /\ lastOp'.op = "confirmOk:importMerge" =>
             /\ Len(prompts') >= Len(prompts)
             /\ SubSeq(prompts', 1, Len(prompts)) = prompts
             /\ \A j \in (Len(prompts) + 1)..Len(prompts') :
                  /\ \E k \in DOMAIN data : data[k] = prompts'[j]
                  /\ \A k \in 1..(j - 1) : prompts'[k].id # prompts'[j].id
             /\ \A k \in DOMAIN data : data[k].id \in IdsOf(prompts')
        /\ lastOp'.op = "confirmOk:import" =>
             /\ Len(prompts') = Len(data)
             /\ \A i \in DOMAIN data :
                  /\ data[i].id # 0 => prompts'[i].id = data[i].id
                  /\ data[i].id = 0 => prompts'[i].id \notin IdsOf(prompts)
                  /\ data[i].title # "" => prompts'[i].title = data[i].title
                  /\ prompts'[i].text = data[i].text
                  /\ prompts'[i].createdAt = data[i].createdAt]_vars

\* a merge has kept the sample record 2 first and added one of two imported
\* records that share the id 1
C24_Witness ==
  /\ lastOp.op = "confirmOk:importMerge"
  /\ Len(prompts) = 2
  /\ prompts[1] = SampleData[2]
  /\ prompts[2].title = "Imported title"

\* C25: a chosen file without a prompts array, and a share token that does
\* not decode to a JSON object, are refused with an error reported, and the
\* collection, the favorites and both stacks stay as they were
C25_MalformedRejected ==
  [][/\ (/\ lastOp'.op \in {"handleFileImport", "handleFileImport:error"}
         /\ ~(lastOp'.file.json /\ lastOp'.file.promptsIs = "array")) =>
          /\ lastOp'.toast = ImportError
          /\ UNCHANGED <<prompts, favorites, undoStack, redoStack, pendingConfirmAction, modals>>
     /\ (/\ lastOp'.op \in {"checkSharedPrompt", "checkSharedPrompt:error"}
         /\ \/ atob(lastOp'.text).threw
            \/ JSONparseValue(atob(lastOp'.text).text).threw
            \/ JSONparseValue(atob(lastOp'.text).text).kind # "object") =>
          /\ lastOp'.toast = ShareError
          /\ UNCHANGED <<prompts, favorites, undoStack, redoStack, modals, formVars>>]_vars

\* C26: every record of the collection has a rating in 0..5, a record
\* without a rating counting as unrated (0)
C26_RatingInRange == \A i \in DOMAIN prompts : ratingOf(prompts[i]) \in 0..5

\* the Levenshtein distance of a and b: the least number of insertions,
\* deletions and substitutions of one character that turn a into b
Levenshtein(a, b) ==
  LET D[i \in 0..Len(a), j \in 0..Len(b)] ==
        IF i = 0 THEN j
        ELSE IF j = 0 THEN i
        ELSE Min(Min(D[i - 1, j] + 1, D[i, j - 1] + 1),
                 D[i - 1, j - 1] + (IF charAt(a, i - 1) = charAt(b, j - 1) THEN 0 ELSE 1))
  IN D[Len(a), Len(b)]

MaxOf(a, b) == IF a > b THEN a ELSE b

\* C27: getEditDistance gives the Levenshtein distance of its arguments,
\* and calculateSimilarity gives (L - distance) / L for L the greater
\* length, and 1 for two empty strings
C27_EditDistance ==
  /\ lastOp.op = "getEditDistance" => editDistance = Levenshtein(str1, str2)
  /\ lastOp.op = "calculateSimilarity" =>
       LET L == MaxOf(Len(str1), Len(str2))
       IN IF L = 0 THEN similarity.num = similarity.den
          ELSE similarity.num * L = (L - Levenshtein(str1, str2)) * similarity.den

\* the distance of two strings of different lengths that also differ in a
\* character was computed
C27_Witness ==
  /\ lastOp.op = "getEditDistance"
  /\ str1 = "ab" /\ str2 = "bba"
  /\ editDistance = 2

\* C28: a similarity lies between 0 and 1, is 1 for a string and itself,
\* and is the same for the arguments in either order
C28_SimilarityLaws ==
  lastOp.op = "calculateSimilarity" =>
    /\ 0 <= similarity.num /\ similarity.num <= similarity.den /\ similarity.den > 0
    /\ str1 = str2 => similarity.num = similarity.den
    /\ similarity.num * calculateSimilarity(str2, str1).den
         = calculateSimilarity(str2, str1).num * similarity.den

\* the similarity of a shorter first argument and a longer second one
C28_Witness ==
  /\ lastOp.op = "calculateSimilarity"
  /\ Len(str1) < Len(str2) /\ str1 # ""
  /\ similarity.num < similarity.den

searchExpected(ps, term) ==
  {ps[i].id : i \in {j \in DOMAIN ps :
      \/ includes(strToLowerCase(ps[j].title), term)
      \/ includes(strToLowerCase(ps[j].text), term)
      \/ \E k \in DOMAIN ps[j].tags : includes(strToLowerCase(ps[j].tags[k]), term)
      \/ includes(strToLowerCase(ps[j].notes), term)}}

\* C30: a search that runs for a term not yet cached yields exactly the ids
\* of the records whose lower-cased title, text, some tag or notes hold the
\* lower-cased term (every record for the empty term)
C30_SearchMatches ==
  [][lastOp'.op = "searchTimer" /\ lastOp'.text \notin DOMAIN searchCache =>
       /\ lastOp'.text \in DOMAIN searchCache'
       /\ Range(searchCache'[lastOp'.text]) = searchExpected(prompts, lastOp'.text)]_vars

\* the records of ps a search for the term is to return, as the list view
\* names their fields
searchOf(p, term) ==
  \/ includes(strToLowerCase(p.title), term)
  \/ includes(strToLowerCase(p.content), term)
  \/ \E k \in DOMAIN p.tags : includes(strToLowerCase(p.tags[k]), term)
  \/ includes(strToLowerCase(p.notes), term)

\* C31: after every handler the filter stage yields, in collection order,
\* exactly the records that pass the active filter and the search term:
\* every record under 'all', the favorites under 'favorites', under a
\* category the records whose category is the path of the category chosen
\* last (that of the click, or the one active before the handler), each
\* intersected with the search of a non-empty term
C31_FilterStage ==
  [][LET path == IF lastOp'.op = "filterByCategory" THEN lastOp'.text ELSE activeCategory
         passes(p) ==
           /\ CASE state'.currentFilter = FilterFavorites -> p.id \in Range(state'.favorites)
                [] state'.currentFilter = FilterCategory -> p.category = path
                [] OTHER -> TRUE
           /\ state'.searchQuery # "" => searchOf(p, state'.searchQuery)
     IN (\/ state'.currentFilter \in {FilterAll, FilterFavorites}
         \/ state'.currentFilter = FilterCategory /\ path # Null)
          => getFilteredPrompts(state', activeCategory')
               = SelectSeq(state'.prompts, passes)]_vars

\* s orders the records of f by the key, largest first, those of equal key
\* as f has them
sortedBy(s, f, key(_)) ==
  /\ Len(s) = Len(f)
  /\ \A i \in DOMAIN f : \E j \in DOMAIN s : s[j] = f[i]
  /\ \A i, j \in DOMAIN s :
       i < j => /\ key(s[i]) >= key(s[j])
                /\ key(s[i]) = key(s[j]) => findIndex(f, s[i].id) < findIndex(f, s[j].id)

\* C32: the sort stage gives a permutation of the filtered list; under
\* 'rating' it is ordered by rating, highest first and the unrated last,
\* under 'complexity' by the derived complexity score, highest first, and
\* records of equal key keep the order the filtered list gave them
C32_SortStage ==
  LET f == getFilteredPrompts(state, activeCategory)
      s == sortPrompts(f, state.currentSort)
  IN /\ state.currentSort = "rating" => sortedBy(s, f, ratingOf)
     /\ state.currentSort = "complexity" => sortedBy(s, f, viewCalculateComplexity)

\* the pages k..last of s under a page size, one after the other
RECURSIVE concatPages(_, _, _, _)
concatPages(s, k, last, size) ==
  IF k > last THEN <<>>
  ELSE paginatePrompts(s, k, size) \o concatPages(s, k + 1, last, size)

\* C33: for the filter, sort and search term of any state and any page size
\* from 1 to MaxPageSize or that of the state, the pages 1 to
\* ceil(totalCount / size) of the sorted list, one after the other, are the
\* sorted list, so their lengths sum to totalCount, the size of the
\* filtered list; every page after the last is empty
C33_PagesPartition ==
  LET f == getFilteredPrompts(state, activeCategory)
      s == sortPrompts(f, state.currentSort)
      totalCount == Len(f)
  IN \A size \in (1..MaxPageSize) \cup {state.pageSize} :
       LET last == totalPagesOf(totalCount, size)
       IN /\ concatPages(s, 1, last, size) = s
          /\ Len(concatPages(s, 1, last, size)) = totalCount
          /\ \A k \in (last + 1)..(last + 2) : paginatePrompts(s, k, size) = <<>>
          /\ \A k \in 1..last : paginatePrompts(s, k, size) # <<>>

\* the last of two pages is on the screen, with the one record left for it
C33_Witness ==
  /\ state.currentPage = 2
  /\ pagination.totalPages = 2
  /\ Len(promptsContainer) = 1
  /\ promptsContainer = [i \in {1} |->
        sortPrompts(getFilteredPrompts(state, activeCategory),
                    state.currentSort)[state.pageSize + 1].id]

\* C39: in every state of the list view the current page is at least 1 and
\* at most the last page of the filtered list (1 when the list is empty),
\* and a filtered list that is not empty has its cards on the screen
C39_PageClamped ==
  LET filteredCount == Len(getFilteredPrompts(state, activeCategory))
      lastPage == totalPagesOf(filteredCount, state.pageSize)
  IN /\ 1 <= state.currentPage
     /\ state.currentPage <= (IF lastPage > 1 THEN lastPage ELSE 1)
     /\ filteredCount > 0 => promptsContainer # <<>>

\* place a comes before place b in the walk over the collection: an earlier
\* record, or the same record and an earlier part of it
placeBefore(a, b) == a[1] < b[1] \/ (a[1] = b[1] /\ a[2] < b[2])

\* the places of a collection that give the suggestion x for a term: <<i, 0>>
\* the title of record i, <<i, k>> its tag k
scriptPlaces(ps, term, x) ==
  {<<i, 0>> : i \in {i \in DOMAIN ps : x = ps[i].title
                                       /\ includes(strToLowerCase(ps[i].title), term)}}
  \cup UNION {{<<i, k>> : k \in {k \in DOMAIN ps[i].tags :
                                   /\ x = "Tag: " \o ps[i].tags[k]
                                   /\ includes(strToLowerCase(ps[i].tags[k]), term)}} :
              i \in DOMAIN ps}

\* the place where the walk meets x first
firstPlace(places) == CHOOSE a \in places : \A b \in places : a = b \/ placeBefore(a, b)

\* every suggestion of a collection for a term: a title or a "Tag: "
\* prefixed tag that contains it
scriptCandidates(ps, term) ==
  {ps[i].title : i \in {i \in DOMAIN ps : includes(strToLowerCase(ps[i].title), term)}}
  \cup UNION {{"Tag: " \o ps[i].tags[k] :
                 k \in {k \in DOMAIN ps[i].tags : includes(strToLowerCase(ps[i].tags[k]), term)}} :
              i \in DOMAIN ps}

\* the list script.js shows after the search timer ran for a term
ScriptSuggestOK ==
  lastOp.op = "searchTimer" =>
    LET term == lastOp.text
        items == suggestions.items
    IN /\ Len(term) < 2 => ~suggestions.active
       /\ (Len(term) >= 2 /\ suggestions.active) =>
            /\ Len(items) <= SuggestionLimit
            /\ \A a, b \in DOMAIN items : a # b => items[a] # items[b]
            /\ \A a \in DOMAIN items :
                 /\ scriptPlaces(prompts, term, items[a]) # {}
                 /\ includes(strToLowerCase(items[a]), term)
            /\ \A a, b \in DOMAIN items :
                 b = a + 1 => placeBefore(firstPlace(scriptPlaces(prompts, term, items[a])),
                                      firstPlace(scriptPlaces(prompts, term, items[b])))
            /\ \A x \in scriptCandidates(prompts, term) :
                 x \in Range(items) \/ Len(items) = SuggestionLimit

\* x is the fragment the list view shows for record p: three dots after the
\* first FragmentLength characters of the first sentence that holds the
\* query, trimmed
isFragment(p, query, x) ==
  /\ Len(x) >= 3
  /\ SubSeq(x, Len(x) - 2, Len(x)) = "..."
  /\ includes(strToLowerCase(p.content), query)
  /\ LET sentences == splitSentences(p.content)
         hits == {k \in DOMAIN sentences : includes(strToLowerCase(sentences[k]), query)}
     IN /\ hits # {}
        /\ LET sentence == trimWhiteSpace(sentences[CHOOSE k \in hits : \A j \in hits : k <= j])
           IN x = (IF Len(sentence) > FragmentLength THEN SubSeq(sentence, 1, FragmentLength)
                   ELSE sentence) \o "..."

\* the places of the list view that give the suggestion x: the title, a
\* tag or the fragment of a record
viewPlaces(ps, query, x) ==
  {<<i, 0>> : i \in {i \in DOMAIN ps : x = ps[i].title
                                       /\ includes(strToLowerCase(ps[i].title), query)}}
  \cup UNION {{<<i, k>> : k \in {k \in DOMAIN ps[i].tags :
                                   /\ x = "Tag: " \o ps[i].tags[k]
                                   /\ includes(strToLowerCase(ps[i].tags[k]), query)}} :
              i \in DOMAIN ps}
  \cup {<<i, Len(ps[i].tags) + 1>> : i \in {i \in DOMAIN ps : isFragment(ps[i], query, x)}}

\* the places after the records: category k of state.categories
categoryPlaces(ps, categories, query, x) ==
  {<<Len(ps) + 1, k>> : k \in {k \in DOMAIN categories :
                                 /\ x = "Category: " \o categories[k].name
                                 /\ includes(strToLowerCase(categories[k].name), query)}}

tokenCount(text) ==
  Cardinality({i \in 1..Len(text) :
                 /\ SubSeq(text, i, i) \notin WhiteSpace
                 /\ i = 1 \/ SubSeq(text, i - 1, i - 1) \in WhiteSpace})

\* 1 when the condition holds, 0 otherwise
point(condition) == IF condition THEN 1 ELSE 0

\* C35: the complexity of a record is the least of 5 and 1, plus 1 for more
\* than 100 words, plus 1 for more than 200 words, plus 1 for notes of more
\* than 50 characters, plus 1 for at least one attachment (an input image or
\* a result image), plus 1 for three tags or more; it lies in 1..5
C35_Complexity ==
  lastOp.op \in {"calculateComplexity", "viewCalculateComplexity"} =>
    LET ofScript == "text" \in DOMAIN argPrompt
        words == tokenCount(IF ofScript THEN argPrompt.text ELSE argPrompt.content)
        attached == IF ofScript
                    THEN argPrompt.inputImage # Null \/ Len(argPrompt.resultImages) > 0
                    ELSE Len(argPrompt.images) > 0
        sum == 1 + point(words > 100) + point(words > 200) + point(Len(argPrompt.notes) > 50)
                 + point(attached) + point(Len(argPrompt.tags) >= 3)
    IN /\ complexity = (IF sum < 5 THEN sum ELSE 5)
       /\ complexity \in 1..5

\* C36: the word count of a text is the number of its non-empty tokens
\* delimited by white space, 0 for the empty text and for white space alone
C36_WordCount ==
  lastOp.op \in {"calculateWordCount", "viewCalculateWordCount"} =>
    /\ wordCount = tokenCount(lastOp.text)
    /\ (lastOp.text = "" \/ \A i \in 1..Len(lastOp.text) :
                               SubSeq(lastOp.text, i, i) \in WhiteSpace) => wordCount = 0

\* from a state with something to undo, undo() and then redo() give the
\* collection and the two stacks of the state back
UndoRedoRoundTrip ==
  Len(undoStack) > 0 =>
    LET u == undoFn(prompts, undoStack, redoStack)
        r == redoFn(u.prompts, u.undoStack, u.redoStack)
    IN /\ r.prompts = prompts
       /\ r.undoStack = undoStack
       /\ r.redoStack = redoStack

\* C37: in every state with a non-empty undoStack, undo() followed at once
\* by redo() leaves the collection, undoStack and redoStack as they were;
\* and no call of undo() or redo() changes len(undoStack) + len(redoStack)
C37_UndoRedo ==
  /\ []UndoRedoRoundTrip
  /\ [][lastOp'.op \in {"undo", "undo:empty", "redo", "redo:empty"} =>
          Len(undoStack') + Len(redoStack') = Len(undoStack) + Len(redoStack)]_vars

\* a redo has just run and left both stacks non-empty, with UndoLimit
\* snapshots between them: an undo from here changes the collection, and
\* the redo after it is the step just taken
C37_Witness ==
  /\ lastOp.op = "redo"
  /\ Len(undoStack) > 0
  /\ Len(redoStack) > 0
  /\ Len(undoStack) + Len(redoStack) = UndoLimit
  /\ undoFn(prompts, undoStack, redoStack).prompts # prompts

\* the entries of a history stack after a step are those before it, each
\* one unchanged: nothing moved (d = 0) or, with the stack at its limit, the
\* oldest entry dropped (d = 1); at most one entry is new, the last, and it
\* is the snapshot of the collection before the step
entriesKept(old, new, ps) ==
  \E d \in {0, 1} :
    /\ d = 1 => Len(old) = UndoLimit /\ Len(new) = UndoLimit
    /\ Len(new) + d <= Len(old) + 1
    /\ \A i \in DOMAIN new : i + d \in DOMAIN old => new[i] = old[i + d]
    /\ Len(new) + d > Len(old) => new[Len(new)] = JSONstringify(ps)

\* C38: a snapshot on undoStack or redoStack never changes once pushed: each
\* step keeps the entries that stay as they are, a pushed entry is the
\* collection before the step, the rename and delete cascades of the
\* categories change records of the collection and no entry, and undo()
\* makes the collection the one its snapshot holds
C38_SnapshotsImmutable ==
  [][/\ entriesKept(undoStack, undoStack', prompts)
     /\ redoStack' = <<>> \/ entriesKept(redoStack, redoStack', prompts)
     /\ lastOp'.op \in {"editCategory", "confirmOk:deleteCategory"} =>
          undoStack' = undoStack /\ redoStack' = redoStack
     /\ lastOp'.op = "undo" => prompts' = JSONparse(undoStack[Len(undoStack)])]_vars

\* a category was renamed with a snapshot on undoStack: a record of the
\* collection has the new key, the same record of the snapshot the old one
C38_Witness ==
  /\ lastOp.op = "editCategory"
  /\ Len(undoStack) > 0
  /\ LET snapshot == JSONparse(undoStack[Len(undoStack)])
     IN \E i \in DOMAIN prompts, j \in DOMAIN snapshot :
          /\ prompts[i].id = snapshot[j].id
          /\ snapshot[j].category = lastOp.key
          /\ prompts[i].category # snapshot[j].category

====
